---- MODULE Spec2Model ----
(***************************************************************************)
(* Model of the process-discovery and credential-extraction core of the    *)
(* antigravity-status extension:                                            *)
(*   src/src/processHunter.ts      ProcessHunter                            *)
(*   src/src/credentialManager.ts  CredentialManager                        *)
(*                                                                          *)
(* Strings the code matches with regular expressions are sequences of      *)
(* one-character strings, so that the matching is computed character by    *)
(* character.  An optional value (T | null) is a sequence of length 0 or 1. *)
(***************************************************************************)
EXTENDS Integers, Sequences, FiniteSets, Bags, TLC

VARIABLES
    \* ---- candidate extraction (pure functions of ProcessHunter) ----
    xpc,        \* "input" | "extracted" | "done"
    cmdline,    \* the command-line string under extraction
    extracted,  \* result of extractFromCommandLine(XPid, cmdline)
    parsed,     \* result of parseProcessInfo on the one-line listing of cmdline
    \* ---- ProcessHunter.scanEnvironment ----
    platform,   \* this.platform, set by the constructor
    spc,        \* where the call stands: "idle" | "list" | "ports" | "probe"
                \*   | "backoff" | "returned" | "threw"
    maxAttempts,\* the argument of the call
    i,          \* the loop counter of scanEnvironment
    candidates, \* parseProcessInfo's result in the current round
    ci,         \* index of the candidate under verifyAndConnect
    ports,      \* identifyPorts' result for that candidate
    pj,         \* index of the port under testPort
    result,     \* the value the call returned (None for null)
    listCalls,  \* history: process listings started during the call
    verified,   \* history: <<port, token>> pairs whose probe, during the
                \*   call, completed with a body that is JSON
    lastProbe,  \* history: the latest probe's response and testPort's answer
    errors,     \* history: the kinds of failure met during the call
    \* ---- CredentialManager.getCredentials, one entry per invocation ----
    cpc,        \* where the invocation stands: "idle" | "exists" | "copy"
                \*   | "query" | "finally" | "await" | "returned" | "threw"
    cpath,      \* the extraction path it is in: "proto" | "json"
    tempDB,     \* the path's tempDB (None before it is chosen)
    pending,    \* the path's completion before its finally block
    settled,    \* the path's completion after its finally block
    cresult,    \* the value getCredentials returned (None for null)
    attempted,  \* history: the extraction paths called, in order
    yielded,    \* history: the value each of them returned, in order
    created,    \* history: the copies this invocation created
    leftover,   \* history: the tempDB files of this invocation that still
                \*   existed when their path ended
    files,      \* the temporary copies in os.tmpdir()
    running,    \* the invocation whose synchronous code runs (0: none)
    \* ---- the binary record reader (pure functions of CredentialManager) ----
    ppc,        \* "input" | "done"
    pin,        \* the input: a buffer, an offset and how they were built
    pout,       \* what readVarint and the field lookups returned for it
    \* ---- the extension (extension.ts): its events and their handlers ----
    estate,      \* "inactive" | "active" | "deactivated"
    apiClient,   \* the module's apiClient (None for null)
    refreshTimer,\* the module's refreshTimer (None for null)
    timers,      \* the interval timers that have not been cleared
    opc,         \* per handler invocation, the await it stands at: "idle"
                 \*   | "connect1" | "fetch" | "connect2" | "refetch"
    okind,       \* per handler invocation: "refresh" | "details"
    statusBarItems,       \* the module's statusBarItems: the model of each item
    liveItems,            \* the per-model items created and not disposed (a bag)
    loadingStatusBarItem, \* None, or the text of the loading item and whether it shows
    notifiedModels,       \* the module's notifiedModels
    warnings,             \* the models warned about by the last updateStatusBar
    lastUpdate,           \* the arguments of the last updateStatusBar
    \* ---- port discovery applied to a socket table or to a text ----
    dpc,         \* "input" | "done"
    din,         \* the platform, the pid and the sockets of the OS, or a text
    dout,        \* the ports identifyPorts or parsePortList returned
    \* ---- AntigravityApiClient.fetchQuotaSnapshot ----
    fpc,         \* the await the call stands at: "idle" | "creds" | "project"
                 \*   | "cloud" | "local" | "returned" | "threw"
    fseen,       \* history: what each awaited call of this fetch gave
    fdata,       \* the response body the returned snapshot was parsed from
    fsnapshot    \* the snapshot the call returned (None before)

xvars == <<xpc, cmdline, extracted, parsed>>
svars == <<platform, spc, maxAttempts, i, candidates, ci, ports, pj, result,
           listCalls, verified, lastProbe, errors>>
cvars == <<cpc, cpath, tempDB, pending, settled, cresult, attempted,
           yielded, created, leftover, files, running>>
pvars == <<ppc, pin, pout>>
bar == <<statusBarItems, liveItems, loadingStatusBarItem, notifiedModels,
         warnings, lastUpdate>>
evars == <<estate, apiClient, refreshTimer, timers, opc, okind, bar>>
dvars == <<dpc, din, dout>>
fvars == <<fpc, fseen, fdata, fsnapshot>>
vars == <<xvars, svars, cvars, pvars, evars, dvars, fvars>>

\* What a step of one component leaves alone.
notExtract == <<svars, cvars, pvars, evars, dvars, fvars>>
notScan == <<xvars, cvars, pvars, evars, dvars, fvars>>
notCred == <<xvars, svars, pvars, evars, dvars, fvars>>
notProto == <<xvars, svars, cvars, evars, dvars, fvars>>
notExt == <<xvars, svars, cvars, pvars, dvars, fvars>>
notPorts == <<xvars, svars, cvars, pvars, evars, fvars>>
notFetch == <<xvars, svars, cvars, pvars, evars, dvars>>

----------------------------------------------------------------------------
(* Optional values *)

None == <<>>
Some(x) == <<x>>

----------------------------------------------------------------------------
(* The variables of each component at rest; a specification of one          *)
(* component holds the others there.                                        *)

MaxCalls == 2

\* The invocations of getCredentials that may be in flight together.
Calls == 1..MaxCalls

\* A completion: nothing yet, a returned value, or a thrown exception.
NoCompletion == [kind |-> "none", value |-> None]
Returned(v) == [kind |-> "return", value |-> v]
Thrown == [kind |-> "throw", value |-> None]

\* The extraction specification's variables, at rest.
XIdle == xpc = "done" /\ cmdline = <<>> /\ extracted = None /\ parsed = <<>>

\* The scan is not running.
SIdle ==
    /\ platform = "linux"
    /\ spc = "idle"
    /\ maxAttempts = 0
    /\ i = 0
    /\ candidates = <<>>
    /\ ci = 0
    /\ ports = <<>>
    /\ pj = 0
    /\ result = None
    /\ listCalls = 0
    /\ verified = {}
    /\ lastProbe = None
    /\ errors = {}

\* No getCredentials call is in flight and no temporary copy exists.
CIdle ==
    /\ cpc = [c \in Calls |-> "idle"]
    /\ cpath = [c \in Calls |-> "proto"]
    /\ tempDB = [c \in Calls |-> None]
    /\ pending = [c \in Calls |-> NoCompletion]
    /\ settled = [c \in Calls |-> NoCompletion]
    /\ cresult = [c \in Calls |-> None]
    /\ attempted = [c \in Calls |-> <<>>]
    /\ yielded = [c \in Calls |-> <<>>]
    /\ created = [c \in Calls |-> {}]
    /\ leftover = [c \in Calls |-> {}]
    /\ files = {}
    /\ running = 0

\* The record reader has nothing to read.
PIdle == ppc = "done" /\ pin = None /\ pout = None

\* Port discovery has nothing to do.
DIdle == dpc = "done" /\ din = None /\ dout = <<>>

\* No fetch has been called.
NotCalled == [creds |-> "none", project |-> "none", cloud |-> "none", local |-> "none"]
FIdle == fpc = "idle" /\ fseen = NotCalled /\ fdata = <<>> /\ fsnapshot = <<>>

MaxOps == 2

\* The handler invocations that may be in flight together.
Ops == 1..MaxOps

\* The extension has not been activated.
EIdle ==
    /\ estate = "inactive"
    /\ apiClient = None
    /\ refreshTimer = None
    /\ timers = {}
    /\ opc = [r \in Ops |-> "idle"]
    /\ okind = [r \in Ops |-> "refresh"]
    /\ statusBarItems = <<>>
    /\ liveItems = EmptyBag
    /\ loadingStatusBarItem = None
    /\ notifiedModels = {}
    /\ warnings = <<>>
    /\ lastUpdate = None

----------------------------------------------------------------------------
(* Characters and character classes of the regular expressions *)

Digits == <<"0", "1", "2", "3", "4", "5", "6", "7", "8", "9">>

\* /i flag: letters compare after case folding.
Lower(c) ==
    CASE c = "A" -> "a" [] c = "B" -> "b" [] c = "C" -> "c"
      [] c = "D" -> "d" [] c = "E" -> "e" [] c = "F" -> "f"
      [] c = "K" -> "k" [] c = "N" -> "n" [] c = "O" -> "o"
      [] c = "P" -> "p" [] c = "R" -> "r" [] c = "S" -> "s"
      [] c = "T" -> "t" [] c = "V" -> "v" [] c = "X" -> "x"
      [] c = "I" -> "i" [] OTHER -> c

\* \s
IsSpace(c) == c \in {" ", "\t", "\n", "\r"}

\* \d
IsDigit(c) == \E d \in 1..10 : Digits[d] = c

\* [=\s]
IsSep(c) == c = "=" \/ IsSpace(c)

\* [a-f0-9-] under /i
IsTokenChar(c) == IsDigit(c) \/ c = "-" \/ Lower(c) \in {"a", "b", "c", "d", "e", "f"}

\* . (anything but a line terminator)
IsDot(c) == c \notin {"\n", "\r"}

DigitVal(c) == (CHOOSE d \in 1..10 : Digits[d] = c) - 1

\* parseInt(s, 10) of a non-empty run of decimal digits
RECURSIVE ParseInt(_)
ParseInt(s) ==
    IF s = <<>> THEN 0
    ELSE 10 * ParseInt(SubSeq(s, 1, Len(s) - 1)) + DigitVal(s[Len(s)])

\* Membership of a character in a named character class.
InClass(c, cls) ==
    CASE cls = "sep" -> IsSep(c)
      [] cls = "token" -> IsTokenChar(c)
      [] cls = "digit" -> IsDigit(c)
      [] cls = "space" -> IsSpace(c)
      [] cls = "dot" -> IsDot(c)

\* Length of the longest run of characters of class cls that starts at p.
RECURSIVE RunLen(_, _, _)
RunLen(s, p, cls) ==
    IF p > Len(s) \/ p < 1 THEN 0
    ELSE IF ~InClass(s[p], cls) THEN 0 ELSE 1 + RunLen(s, p + 1, cls)

\* The literal lit occurs in s at position p, letters compared case-folded.
LitAt(s, p, lit) ==
    /\ p + Len(lit) - 1 <= Len(s)
    /\ \A k \in 1..Len(lit) : Lower(s[p + k - 1]) = lit[k]

CSRF_FLAG == <<"-", "-", "c", "s", "r", "f", "_", "t", "o", "k", "e", "n">>
PORT_FLAG == <<"-", "-", "e", "x", "t", "e", "n", "s", "i", "o", "n", "_",
               "s", "e", "r", "v", "e", "r", "_", "p", "o", "r", "t">>

(***************************************************************************)
(* String.prototype.match for a pattern  flag[=\s]+(cls+)  without the g   *)
(* flag: the leftmost position where the pattern matches, the quantifiers  *)
(* greedy.  The separator class and the value classes are disjoint, so     *)
(* giving back separator characters never creates a match: the pattern     *)
(* matches at p exactly when the flag is at p, the longest separator run   *)
(* after it is non-empty and a value character follows that run.           *)
(* The result is None or Some(capture group 1).                            *)
(***************************************************************************)
FlagMatchAt(s, p, flag, cls) ==
    /\ LitAt(s, p, flag)
    /\ LET q == p + Len(flag)
           n == RunLen(s, q, "sep")
       IN  n >= 1 /\ RunLen(s, q + n, cls) >= 1

FlagCapture(s, p, flag, cls) ==
    LET q == p + Len(flag)
        n == RunLen(s, q, "sep")
        m == RunLen(s, q + n, cls)
    IN  SubSeq(s, q + n, q + n + m - 1)

FlagMatch(s, flag, cls) ==
    LET hits == {p \in 1..Len(s) : FlagMatchAt(s, p, flag, cls)}
    IN  IF hits = {} THEN None
        ELSE LET p == CHOOSE h \in hits : \A g \in hits : h <= g
             IN  Some(FlagCapture(s, p, flag, cls))

\* A mutant: the token is taken to be a decimal number.
tokenMatch_DigitsOnly(s) == FlagMatch(s, CSRF_FLAG, "digit")

\* cmdline.match(/--csrf_token[=\s]+([a-f0-9-]+)/i)
tokenMatch(s) == FlagMatch(s, CSRF_FLAG, "token")

\* cmdline.match(/--extension_server_port[=\s]+(\d+)/i)
portMatch(s) == FlagMatch(s, PORT_FLAG, "digit")

\* A mutant: a candidate is formed from the token alone.
extractFromCommandLine_TokenOnly(pid, s) ==
    IF tokenMatch(s) # None
    THEN Some([pid |-> pid,
               extensionPort |-> IF portMatch(s) # None
                                 THEN ParseInt(portMatch(s)[1]) ELSE 0,
               csrfToken |-> tokenMatch(s)[1]])
    ELSE None

\* ProcessHunter.extractFromCommandLine
extractFromCommandLine(pid, s) ==
    IF tokenMatch(s) # None /\ portMatch(s) # None
    THEN Some([pid |-> pid,
               extensionPort |-> ParseInt(portMatch(s)[1]),
               csrfToken |-> tokenMatch(s)[1]])
    ELSE None

----------------------------------------------------------------------------
(* String helpers of parseProcessInfo *)

\* String.prototype.trim
Trim(s) ==
    LET a == RunLen(s, 1, "space")
    IN  IF a = Len(s) THEN <<>>
        ELSE LET e == CHOOSE k \in 1..Len(s) :
                          /\ ~IsSpace(s[k])
                          /\ \A j \in (k + 1)..Len(s) : IsSpace(s[j])
             IN  SubSeq(s, a + 1, e)

\* String.prototype.split('\n'): the segments between line feeds, [""] for "".
RECURSIVE SplitLines(_)
SplitLines(s) ==
    LET nl == {k \in 1..Len(s) : s[k] = "\n"}
    IN  IF nl = {} THEN <<s>>
        ELSE LET k == CHOOSE h \in nl : \A g \in nl : h <= g
             IN  <<SubSeq(s, 1, k - 1)>> \o SplitLines(SubSeq(s, k + 1, Len(s)))

(***************************************************************************)
(* line.match(/^\s*(\d+)\s+(.+)$/): leading white space, a digit run, a     *)
(* white-space run of which the greedy \s+ keeps as much as leaves (.+) a   *)
(* non-empty rest free of line terminators up to the end of the line.      *)
(* None, or Some of the two capture groups.                                *)
(***************************************************************************)
lineMatch(line) ==
    LET a == RunLen(line, 1, "space")
        d == RunLen(line, a + 1, "digit")
        r == RunLen(line, a + d + 1, "space")
        ks == {k \in 1..r :
                  /\ a + d + k < Len(line)
                  /\ \A j \in (a + d + k + 1)..Len(line) : IsDot(line[j])}
    IN  IF d = 0 \/ ks = {} THEN None
        ELSE LET k == CHOOSE h \in ks : \A g \in ks : g <= h
             IN  Some([pid |-> SubSeq(line, a + 1, a + d),
                       cmdline |-> SubSeq(line, a + d + k + 1, Len(line))])

\* The Unix branch of parseProcessInfo: one candidate per matching line.
RECURSIVE parseUnixLines(_)
parseUnixLines(lines) ==
    IF lines = <<>> THEN <<>>
    ELSE LET m == lineMatch(Head(lines))
             info == IF m = None THEN None
                     ELSE extractFromCommandLine(ParseInt(m[1].pid), m[1].cmdline)
         IN  info \o parseUnixLines(Tail(lines))

(***************************************************************************)
(* The win32 branch: stdout is the JSON text PowerShell printed, modelled   *)
(* by what JSON.parse makes of it:                                          *)
(*   [kind |-> "invalid"]              JSON.parse throws                    *)
(*   [kind |-> "array", items |-> q]   an array of items                    *)
(*   [kind |-> "single", items |-> <<x>>]  one value, wrapped as [parsed]   *)
(* an item being [isNull, ProcessId, CommandLine (optional)].  Reading      *)
(* proc.CommandLine of a null item throws inside the try: the loop ends     *)
(* and the candidates pushed so far are returned.                           *)
(***************************************************************************)
RECURSIVE parseWinItems(_)
parseWinItems(items) ==
    IF items = <<>> THEN <<>>
    ELSE LET proc == Head(items)
         IN  IF proc.isNull THEN <<>>
             ELSE (IF proc.CommandLine # None
                   THEN extractFromCommandLine(proc.ProcessId, proc.CommandLine[1])
                   ELSE None)
                  \o parseWinItems(Tail(items))

\* ProcessHunter.parseProcessInfo
parseProcessInfo(pf, stdout) ==
    IF pf = "win32"
    THEN IF stdout.kind = "invalid" THEN <<>> ELSE parseWinItems(stdout.items)
    ELSE parseUnixLines(SplitLines(Trim(stdout)))

----------------------------------------------------------------------------
(* Port-list parsing *)

Letters == {"a", "b", "c", "d", "e", "f", "g", "h", "i", "j", "k", "l", "m",
            "n", "o", "p", "q", "r", "s", "t", "u", "v", "w", "x", "y", "z",
            "A", "B", "C", "D", "E", "F", "G", "H", "I", "J", "K", "L", "M",
            "N", "O", "P", "Q", "R", "S", "T", "U", "V", "W", "X", "Y", "Z"}

\* \w
IsWord(c) == IsDigit(c) \/ c = "_" \/ c \in Letters

\* line.match(/:(\d+)\s/g): the digit runs of the successive matches found
\* from position p on, each match resuming the search after its end.
RECURSIVE colonPortMatches(_, _)
colonPortMatches(line, p) ==
    IF p > Len(line) THEN <<>>
    ELSE LET d == RunLen(line, p + 1, "digit")
         IN  IF line[p] = ":" /\ d >= 1 /\ p + 1 + d <= Len(line)
                /\ IsSpace(line[p + 1 + d])
             THEN <<SubSeq(line, p + 1, p + d)>> \o colonPortMatches(line, p + d + 2)
             ELSE colonPortMatches(line, p + 1)

\* line.match(/\b(\d{4,5})\b/g): the digit runs of length 4 or 5 that stand
\* between word boundaries.
RECURSIVE barePortMatches(_, _)
barePortMatches(line, p) ==
    IF p > Len(line) THEN <<>>
    ELSE LET d == RunLen(line, p, "digit")
         IN  IF /\ (p = 1 \/ ~IsWord(line[p - 1]))
                /\ d \in {4, 5}
                /\ (p + d > Len(line) \/ ~IsWord(line[p + d]))
             THEN <<SubSeq(line, p, p + d - 1)>> \o barePortMatches(line, p + d)
             ELSE barePortMatches(line, p + 1)

\* line.match(/:(\d+)\s/g) || line.match(/\b(\d{4,5})\b/g)
portMatches(line) ==
    IF colonPortMatches(line, 1) # <<>> THEN colonPortMatches(line, 1)
    ELSE barePortMatches(line, 1)

PORT_MIN == 1024
PORT_MAX == 65535

\* A mutant: an array push instead of Set.add.
AddPort_Push(acc, port) == Append(acc, port)

\* Set.add on the insertion-ordered set of ports.
AddPort(acc, port) ==
    IF \E k \in 1..Len(acc) : acc[k] = port THEN acc ELSE Append(acc, port)

\* A mutant: the inner loop keeps every port, whatever its value.
RECURSIVE addPorts_AnyPort(_, _)
addPorts_AnyPort(acc, ms) ==
    IF ms = <<>> THEN acc
    ELSE addPorts_AnyPort(AddPort(acc, ParseInt(Head(ms))), Tail(ms))

\* The inner loop of parsePortList: the matches of one line, range-filtered.
RECURSIVE addPorts(_, _)
addPorts(acc, ms) ==
    IF ms = <<>> THEN acc
    ELSE LET port == ParseInt(Head(ms))
         IN  addPorts(IF port >= PORT_MIN /\ port <= PORT_MAX
                      THEN AddPort(acc, port) ELSE acc,
                      Tail(ms))

RECURSIVE parsePortLines(_, _)
parsePortLines(acc, lines) ==
    IF lines = <<>> THEN acc
    ELSE parsePortLines(addPorts(acc, portMatches(Head(lines))), Tail(lines))

\* ProcessHunter.parsePortList
parsePortList(stdout) == parsePortLines(<<>>, SplitLines(Trim(stdout)))

----------------------------------------------------------------------------
(* JSON.parse, as far as testPort uses it: whether a text is a JSON value.   *)
(* Each recogniser takes the position where its construct starts and gives   *)
(* the position after it, or 0 when the text is not JSON there.              *)

SkipWs(s, p) == p + RunLen(s, p, "space")

jsonLiteralEnd(s, p, lit) ==
    IF p + Len(lit) - 1 <= Len(s) /\ SubSeq(s, p, p + Len(lit) - 1) = lit
    THEN p + Len(lit) ELSE 0

\* -? (0 | [1-9][0-9]*) (. [0-9]+)?
jsonNumberEnd(s, p) ==
    LET q == IF p <= Len(s) /\ s[p] = "-" THEN p + 1 ELSE p
        d == RunLen(s, q, "digit")
        e == IF d = 0 THEN 0 ELSE IF s[q] = "0" THEN q + 1 ELSE q + d
    IN  IF e = 0 THEN 0
        ELSE IF e <= Len(s) /\ s[e] = "."
        THEN (IF RunLen(s, e + 1, "digit") = 0 THEN 0
              ELSE e + 1 + RunLen(s, e + 1, "digit"))
        ELSE e

\* The characters after the opening quote, up to and including the closing one.
RECURSIVE jsonStringRest(_, _)
jsonStringRest(s, p) ==
    IF p > Len(s) THEN 0
    ELSE IF s[p] = "\"" THEN p + 1
    ELSE IF s[p] \in {"\n", "\r", "\t"} THEN 0
    ELSE IF s[p] = "\\"
    THEN (IF p + 1 <= Len(s) /\ s[p + 1] \in {"\"", "\\", "/", "b", "f", "n", "r", "t"}
          THEN jsonStringRest(s, p + 2) ELSE 0)
    ELSE jsonStringRest(s, p + 1)

RECURSIVE jsonValueEnd(_, _)
RECURSIVE jsonMembersEnd(_, _)
RECURSIVE jsonElementsEnd(_, _)

\* After '{' or ',': "key" : value, then ',' and more members, or '}'.
jsonMembersEnd(s, p) ==
    LET k == SkipWs(s, p)
        ke == IF k <= Len(s) /\ s[k] = "\"" THEN jsonStringRest(s, k + 1) ELSE 0
        c == IF ke = 0 THEN 0 ELSE SkipWs(s, ke)
        ve == IF c = 0 \/ c > Len(s) THEN 0
              ELSE IF s[c] # ":" THEN 0 ELSE jsonValueEnd(s, SkipWs(s, c + 1))
        n == IF ve = 0 THEN 0 ELSE SkipWs(s, ve)
    IN  IF n = 0 \/ n > Len(s) THEN 0
        ELSE IF s[n] = "}" THEN n + 1
        ELSE IF s[n] = "," THEN jsonMembersEnd(s, n + 1)
        ELSE 0

\* After '[' or ',': value, then ',' and more elements, or ']'.
jsonElementsEnd(s, p) ==
    LET ve == jsonValueEnd(s, SkipWs(s, p))
        n == IF ve = 0 THEN 0 ELSE SkipWs(s, ve)
    IN  IF n = 0 \/ n > Len(s) THEN 0
        ELSE IF s[n] = "]" THEN n + 1
        ELSE IF s[n] = "," THEN jsonElementsEnd(s, n + 1)
        ELSE 0

jsonValueEnd(s, p) ==
    IF p > Len(s) THEN 0
    ELSE IF s[p] = "{"
    THEN (IF SkipWs(s, p + 1) <= Len(s) /\ s[SkipWs(s, p + 1)] = "}"
          THEN SkipWs(s, p + 1) + 1 ELSE jsonMembersEnd(s, p + 1))
    ELSE IF s[p] = "["
    THEN (IF SkipWs(s, p + 1) <= Len(s) /\ s[SkipWs(s, p + 1)] = "]"
          THEN SkipWs(s, p + 1) + 1 ELSE jsonElementsEnd(s, p + 1))
    ELSE IF s[p] = "\"" THEN jsonStringRest(s, p + 1)
    ELSE IF s[p] = "t" THEN jsonLiteralEnd(s, p, <<"t", "r", "u", "e">>)
    ELSE IF s[p] = "f" THEN jsonLiteralEnd(s, p, <<"f", "a", "l", "s", "e">>)
    ELSE IF s[p] = "n" THEN jsonLiteralEnd(s, p, <<"n", "u", "l", "l">>)
    ELSE jsonNumberEnd(s, p)

\* JSON.parse(body) returns (TRUE) or throws a SyntaxError (FALSE).
JSONParses(body) ==
    LET e == jsonValueEnd(body, SkipWs(body, 1))
    IN  e # 0 /\ SkipWs(body, e) = Len(body) + 1

----------------------------------------------------------------------------
(* The protobuf walk of CredentialManager.  A buffer is a sequence of bytes; *)
(* offsets are zero-based as in the code.  The bitwise operators of the code *)
(* work on 32-bit signed integers.                                           *)

(* A 32-bit signed integer x is split into its sign bit and its low 31 bits *)
(* so that no intermediate value leaves the 32-bit range.                   *)
TWO30 == 1073741824
INT_MAX == 2147483647

Low31(x) == IF x < 0 THEN (x + TWO30) + TWO30 ELSE x
FromBits(sign, low) == IF sign = 1 THEN (low - TWO30) - TWO30 ELSE low

\* x << n for a 7-bit x: the count is taken modulo 32 and the result wraps
\* to 32 bits (bit 31 - k of x becomes the sign, higher bits are lost).
ShiftLeft(x, n) ==
    LET k == n % 32
    IN  IF k = 0 THEN x
        ELSE FromBits((x \div 2 ^ (31 - k)) % 2, (x % 2 ^ (31 - k)) * 2 ^ k)

RECURSIVE OrBits(_, _, _)
OrBits(a, b, n) ==
    IF n = 0 \/ (a = 0 /\ b = 0) THEN 0
    ELSE (IF a % 2 = 1 \/ b % 2 = 1 THEN 1 ELSE 0)
         + 2 * OrBits(a \div 2, b \div 2, n - 1)

\* a | b
BitOr(a, b) ==
    FromBits(IF a < 0 \/ b < 0 THEN 1 ELSE 0, OrBits(Low31(a), Low31(b), 31))

\* a + b for an offset and a length; a sum outside the 32-bit range is kept
\* at the range's end (such an offset lies outside every buffer either way).
AddOffset(a, b) ==
    IF a > 0 /\ b > INT_MAX - a THEN INT_MAX
    ELSE IF a < 0 /\ b < (0 - INT_MAX) - a THEN 0 - INT_MAX
    ELSE a + b

\* buffer[pos] & mask for a mask below 256; reading outside the buffer gives
\* undefined, which & turns into 0.
ByteAnd(buffer, pos, mask) ==
    IF pos >= 0 /\ pos < Len(buffer)
    THEN LET byte == buffer[pos + 1]
         IN  IF mask = 127 THEN byte % 128 ELSE (byte \div 128) * 128
    ELSE 0

\* The while loop of readVarint, at position pos with result and shift.
RECURSIVE readVarintLoop(_, _, _, _, _)
readVarintLoop(buffer, offset, pos, res, shift) ==
    IF ~(pos < Len(buffer)) THEN [value |-> 0, newOffset |-> offset]
    ELSE LET r == BitOr(res, ShiftLeft(ByteAnd(buffer, pos, 127), shift))
         IN  IF ByteAnd(buffer, pos, 128) = 0
             THEN [value |-> r, newOffset |-> pos + 1]
             ELSE readVarintLoop(buffer, offset, pos + 1, r, shift + 7)

\* A mutant: a varint cut short by the end of the buffer is consumed.
readVarint_ConsumesTruncated(buffer, offset) ==
    LET r == readVarintLoop(buffer, offset, offset, 0, 0)
    IN  IF r.newOffset = offset /\ offset < Len(buffer)
        THEN [value |-> 0, newOffset |-> Len(buffer)]
        ELSE r

\* CredentialManager.readVarint
readVarint(buffer, offset) == readVarintLoop(buffer, offset, offset, 0, 0)

\* Buffer.prototype.slice(start, end): negative indices count from the end,
\* both are clamped to the buffer, an end before the start gives no bytes.
Clamp(buffer, k) ==
    LET n == Len(buffer)
        r == IF k < 0 THEN n + k ELSE k
    IN  IF r < 0 THEN 0 ELSE IF r > n THEN n ELSE r

\* A mutant: the length is passed where slice expects the end index.
BufferSlice_EndIsLength(buffer, start, end) ==
    SubSeq(buffer, Clamp(buffer, start) + 1, Clamp(buffer, end - start))

BufferSlice(buffer, start, end) ==
    SubSeq(buffer, Clamp(buffer, start) + 1, Clamp(buffer, end))

\* A mutant: the group wire types 3 and 4 are skipped as fields of no bytes.
SkipField_GroupsSkipped(buffer, wireType, tagEnd) ==
    IF wireType = 0 THEN Some(readVarint(buffer, tagEnd).newOffset)
    ELSE IF wireType = 1 THEN Some(tagEnd + 8)
    ELSE IF wireType = 5 THEN Some(tagEnd + 4)
    ELSE IF wireType \in {3, 4} THEN Some(tagEnd)
    ELSE None

\* The branches of the loop body for a wire type other than 2: Some of the
\* offset after the field, or None where the code breaks out of the loop.
SkipField(buffer, wireType, tagEnd) ==
    IF wireType = 0 THEN Some(readVarint(buffer, tagEnd).newOffset)
    ELSE IF wireType = 1 THEN Some(tagEnd + 8)
    ELSE IF wireType = 5 THEN Some(tagEnd + 4)
    ELSE None

WalkEnds(found) == [kind |-> "end", result |-> found, offset |-> 0]
WalkGoesOn(offset) == [kind |-> "next", result |-> None, offset |-> offset]

\* The loop test and one pass through the loop body of findProtobufField at
\* offset: the walk ends, with None for null or Some of the returned slice,
\* or goes on at a new offset.
fieldStep(buffer, targetField, offset) ==
    IF ~(offset < Len(buffer)) THEN WalkEnds(None)
    ELSE LET t == readVarint(buffer, offset)
             wireType == t.value % 8
             fieldNum == t.value \div 8
             tagEnd == t.newOffset
         IN  IF tagEnd = offset THEN WalkEnds(None)
             ELSE IF wireType = 2
             THEN LET l == readVarint(buffer, tagEnd)
                  IN  IF fieldNum = targetField
                      THEN WalkEnds(Some(BufferSlice(buffer, l.newOffset,
                                                     AddOffset(l.newOffset, l.value))))
                      ELSE WalkGoesOn(AddOffset(l.newOffset, l.value))
             ELSE LET after == SkipField(buffer, wireType, tagEnd)
                  IN  IF after = None THEN WalkEnds(None) ELSE WalkGoesOn(after[1])

\* The while loop of findProtobufField from offset: None for null, or Some of
\* the returned slice.
RECURSIVE findFieldLoop(_, _, _)
findFieldLoop(buffer, targetField, offset) ==
    LET step == fieldStep(buffer, targetField, offset)
    IN  IF step.kind = "end" THEN step.result
        ELSE findFieldLoop(buffer, targetField, step.offset)

\* CredentialManager.findProtobufField
findProtobufField(buffer, targetField) == findFieldLoop(buffer, targetField, 0)

REPLACEMENT == 65533

\* Buffer.prototype.toString('utf8'), as a sequence of code points: one- and
\* two-byte sequences are decoded, any other byte gives U+FFFD.
RECURSIVE utf8Decode(_)
utf8Decode(bytes) ==
    IF bytes = <<>> THEN <<>>
    ELSE LET b == Head(bytes)
         IN  IF b < 128 THEN <<b>> \o utf8Decode(Tail(bytes))
             ELSE IF b >= 194 /\ b < 224 /\ Len(bytes) >= 2
                     /\ bytes[2] >= 128 /\ bytes[2] < 192
             THEN <<(b - 192) * 64 + (bytes[2] - 128)>> \o utf8Decode(Tail(Tail(bytes)))
             ELSE <<REPLACEMENT>> \o utf8Decode(Tail(bytes))

\* CredentialManager.extractAccessTokenFromProtobuf: None for null, or Some
\* of the token string (which may be empty).
extractAccessTokenFromProtobuf(buffer) ==
    LET oauthData == findProtobufField(buffer, 6)
    IN  IF oauthData = None THEN None
        ELSE LET accessToken == findProtobufField(oauthData[1], 1)
             IN  IF accessToken = None THEN None
                 ELSE Some(utf8Decode(accessToken[1]))

----------------------------------------------------------------------------
(* Command lines for the extraction specification: all concatenations of    *)
(* at most MaxPieces pieces.                                                *)

MaxPieces == 4

SP == " "
NUM == <<"4", "2", "1", "0", "0">>
P_TokEq == CSRF_FLAG \o <<"=">>
P_TokSp == CSRF_FLAG \o <<SP>>
P_PortEq == PORT_FLAG \o <<"=">>
P_PortArgEq == PORT_FLAG \o <<"=">> \o NUM \o <<SP>>
P_PortArgSp == PORT_FLAG \o <<SP>> \o NUM \o <<SP>>
P_Hex == <<"a", "1", "-", "F">>
P_Num == NUM \o <<SP>>
P_Other == <<"z", "q">>

Pieces == {P_TokEq, P_TokSp, P_PortEq, P_PortArgEq, P_PortArgSp,
           P_Hex, P_Num, <<SP>>, P_Other}

RECURSIVE Flatten(_)
Flatten(ps) == IF ps = <<>> THEN <<>> ELSE Head(ps) \o Flatten(Tail(ps))

CmdLines == {Flatten(ps) : ps \in UNION {[1..n -> Pieces] : n \in 0..MaxPieces}}

\* The pid column of the one-line listing, as printed and as parsed.
XPidText == <<"4", "2", "4", "2">>
XPid == ParseInt(XPidText)

XInit ==
    /\ xpc = "input"
    /\ cmdline \in CmdLines
    /\ extracted = None
    /\ parsed = <<>>
    /\ SIdle
    /\ CIdle
    /\ PIdle
    /\ EIdle
    /\ DIdle
    /\ FIdle

\* extractFromCommandLine applied to the command line.
XExtract ==
    /\ xpc = "input"
    /\ extracted' = extractFromCommandLine(XPid, cmdline)
    /\ xpc' = "extracted"
    /\ UNCHANGED <<cmdline, parsed, notExtract>>

\* parseProcessInfo applied to the ps listing whose one line is the command line.
XParse ==
    /\ xpc = "extracted"
    /\ parsed' = parseProcessInfo("linux", <<SP>> \o XPidText \o <<SP>> \o cmdline \o <<"\n">>)
    /\ xpc' = "done"
    /\ UNCHANGED <<cmdline, extracted, notExtract>>

XNext == XExtract \/ XParse

SpecExtract == XInit /\ [][XNext]_vars

----------------------------------------------------------------------------
(* What the claims about candidate extraction speak of, stated without the  *)
(* matcher: occurrences of the two argument patterns in a command line.     *)

\* Somewhere in s the flag name is followed by one or more separator
\* characters and then a value character.
HasPattern(s, flag, cls) ==
    \E p \in 1..(Len(s) - Len(flag)) :
        /\ LitAt(s, p, flag)
        /\ \E n \in 1..(Len(s) - Len(flag) - p) :
               /\ \A j \in 0..(n - 1) : IsSep(s[p + Len(flag) + j])
               /\ InClass(s[p + Len(flag) + n], cls)

\* The white-space-delimited word of s that starts at q (s[q] not a space).
WordAt(s, q) ==
    LET e == CHOOSE k \in q..Len(s) :
                 /\ \A j \in q..k : ~IsSpace(s[j])
                 /\ (k = Len(s) \/ IsSpace(s[k + 1]))
    IN  SubSeq(s, q, e)

AllInClass(w, cls) == w # <<>> /\ \A j \in 1..Len(w) : InClass(w[j], cls)

\* The values of the well-formed arguments of s that start at position p:
\* a word  flag=V , or a word  flag  followed by white space and a word V,
\* where V consists of value characters only.
WellFormedAt(s, p, flag, cls) ==
    LET q == p + Len(flag)
    IN  IF ~(LitAt(s, p, flag) /\ (p = 1 \/ IsSpace(s[p - 1])) /\ q <= Len(s))
        THEN {}
        ELSE IF s[q] = "="
        THEN IF q + 1 <= Len(s) /\ ~IsSpace(s[q + 1])
                /\ AllInClass(WordAt(s, q + 1), cls)
             THEN {WordAt(s, q + 1)} ELSE {}
        ELSE IF IsSpace(s[q])
        THEN LET v == q + RunLen(s, q, "space")
             IN  IF v <= Len(s) /\ AllInClass(WordAt(s, v), cls)
                 THEN {WordAt(s, v)} ELSE {}
        ELSE {}

\* The values of all well-formed arguments of s for the flag.
WellFormedValues(s, flag, cls) ==
    UNION {WellFormedAt(s, p, flag, cls) : p \in 1..Len(s)}

\* The first position of s where the flag name occurs (0 when it does not).
FirstOccurrence(s, flag) ==
    LET occ == {p \in 1..Len(s) : LitAt(s, p, flag)}
    IN  IF occ = {} THEN 0 ELSE CHOOSE p \in occ : \A g \in occ : p <= g

\* The value of the well-formed argument at the flag's first occurrence.
FirstWellFormed(s, flag, cls) ==
    IF FirstOccurrence(s, flag) = 0 THEN {}
    ELSE WellFormedAt(s, FirstOccurrence(s, flag), flag, cls)

\* C7: a command line in which the CSRF-token pattern or the extension-port
\* pattern does not occur yields no candidate from extractFromCommandLine,
\* and its line of the process listing contributes nothing to the candidate
\* list of parseProcessInfo (the only processes scanEnvironment probes).
C7_MissingPatternNoCandidate ==
    (/\ xpc = "done"
     /\ \/ ~HasPattern(cmdline, CSRF_FLAG, "token")
        \/ ~HasPattern(cmdline, PORT_FLAG, "digit"))
    => extracted = None /\ parsed = <<>>

\* C7 witness: a command line with the token pattern but without the port
\* pattern has been extracted and parsed.
C7_Witness ==
    /\ xpc = "done"
    /\ HasPattern(cmdline, CSRF_FLAG, "token")
    /\ ~HasPattern(cmdline, PORT_FLAG, "digit")
    /\ Len(cmdline) > Len(CSRF_FLAG) + Len(PORT_FLAG)
    /\ extracted = None
    /\ parsed = <<>>

\* C8 as stated: whenever the command line contains a well-formed token
\* argument and a well-formed port argument, extraction returns a candidate
\* whose values are those of well-formed arguments.
C8_Original ==
    (/\ xpc = "done"
     /\ WellFormedValues(cmdline, CSRF_FLAG, "token") # {}
     /\ WellFormedValues(cmdline, PORT_FLAG, "digit") # {})
    => /\ extracted # None
       /\ extracted[1].csrfToken \in WellFormedValues(cmdline, CSRF_FLAG, "token")
       /\ extracted[1].extensionPort \in
              {ParseInt(v) : v \in WellFormedValues(cmdline, PORT_FLAG, "digit")}

\* C8 amended: when the first occurrence of each flag name in the command
\* line is a well-formed argument, extraction returns exactly the values of
\* those two arguments, in either order and with either separator, and so
\* does parseProcessInfo for the listing line of that process.
C8_FirstWellFormedExtracted ==
    \A tv \in FirstWellFormed(cmdline, CSRF_FLAG, "token") :
        \A pv \in FirstWellFormed(cmdline, PORT_FLAG, "digit") :
            LET info == [pid |-> XPid, extensionPort |-> ParseInt(pv), csrfToken |-> tv]
            IN  /\ xpc \in {"extracted", "done"} => extracted = Some(info)
                /\ xpc = "done" => parsed = <<info>>

\* C8 witness: the port argument comes first and is written with '=', the
\* token argument follows and is separated from its value by white space.
C8_Witness ==
    /\ xpc = "done"
    /\ FirstWellFormed(cmdline, CSRF_FLAG, "token") = {P_Hex}
    /\ FirstWellFormed(cmdline, PORT_FLAG, "digit") # {}
    /\ FirstOccurrence(cmdline, PORT_FLAG) < FirstOccurrence(cmdline, CSRF_FLAG)
    /\ cmdline[FirstOccurrence(cmdline, CSRF_FLAG) + Len(CSRF_FLAG)] = SP
    /\ cmdline[FirstOccurrence(cmdline, PORT_FLAG) + Len(PORT_FLAG)] = "="
    /\ extracted = Some([pid |-> XPid, extensionPort |-> 42100, csrfToken |-> P_Hex])

----------------------------------------------------------------------------
(* The environment of a scan: what the process-listing command, the port-   *)
(* listing command and a probed port may answer.                            *)

\* stdout of `ps -eo pid,args | grep ... | grep -v grep`
PS_Empty == <<>>
PS_Blank == <<" ", "\n">>
\* one language server with both arguments
PS_One ==
    <<" ", " ", "4", "2", "4", "2", " ", "/", "o", "p", "t", "/", "l", "a",
      "n", "g", "u", "a", "g", "e", "_", "s", "e", "r", "v", "e", "r", "_",
      "l", "i", "n", "u", "x", " ", "-", "-", "c", "s", "r", "f", "_", "t",
      "o", "k", "e", "n", "=", "a", "1", "-", "F", " ", "-", "-", "e", "x",
      "t", "e", "n", "s", "i", "o", "n", "_", "s", "e", "r", "v", "e", "r",
      "_", "p", "o", "r", "t", "=", "4", "2", "1", "0", "0", "\n">>
\* a process with the token only, then a language server (white-space form)
PS_TokenOnlyThenOne ==
    <<" ", " ", " ", "7", "7", " ", "/", "o", "p", "t", "/", "l", "a", "n",
      "g", "u", "a", "g", "e", "_", "s", "e", "r", "v", "e", "r", "_", "l",
      "i", "n", "u", "x", " ", "-", "-", "c", "s", "r", "f", "_", "t", "o",
      "k", "e", "n", "=", "a", "1", "-", "F", "\n", " ", "4", "3", "4", "3",
      " ", "/", "o", "p", "t", "/", "l", "a", "n", "g", "u", "a", "g", "e",
      "_", "s", "e", "r", "v", "e", "r", "_", "l", "i", "n", "u", "x", " ",
      "-", "-", "e", "x", "t", "e", "n", "s", "i", "o", "n", "_", "s", "e",
      "r", "v", "e", "r", "_", "p", "o", "r", "t", " ", "4", "2", "1", "0",
      "1", " ", "-", "-", "c", "s", "r", "f", "_", "t", "o", "k", "e", "n",
      " ", "7", "b", "\n">>
\* two language servers
PS_Two ==
    <<" ", "4", "2", "4", "2", " ", "/", "o", "p", "t", "/", "l", "a", "n",
      "g", "u", "a", "g", "e", "_", "s", "e", "r", "v", "e", "r", "_", "l",
      "i", "n", "u", "x", " ", "-", "-", "c", "s", "r", "f", "_", "t", "o",
      "k", "e", "n", "=", "a", "1", "-", "F", " ", "-", "-", "e", "x", "t",
      "e", "n", "s", "i", "o", "n", "_", "s", "e", "r", "v", "e", "r", "_",
      "p", "o", "r", "t", "=", "4", "2", "1", "0", "0", "\n", " ", "4", "3",
      "4", "3", " ", "/", "o", "p", "t", "/", "l", "a", "n", "g", "u", "a",
      "g", "e", "_", "s", "e", "r", "v", "e", "r", "_", "l", "i", "n", "u",
      "x", " ", "-", "-", "e", "x", "t", "e", "n", "s", "i", "o", "n", "_",
      "s", "e", "r", "v", "e", "r", "_", "p", "o", "r", "t", " ", "4", "2",
      "1", "0", "1", " ", "-", "-", "c", "s", "r", "f", "_", "t", "o", "k",
      "e", "n", " ", "7", "b", "\n">>
\* no line yields a candidate
PS_NoCandidate ==
    <<" ", " ", " ", "7", "7", " ", "/", "o", "p", "t", "/", "l", "a", "n",
      "g", "u", "a", "g", "e", "_", "s", "e", "r", "v", "e", "r", "_", "l",
      "i", "n", "u", "x", " ", "-", "-", "e", "x", "t", "e", "n", "s", "i",
      "o", "n", "_", "s", "e", "r", "v", "e", "r", "_", "p", "o", "r", "t",
      "=", "4", "2", "1", "0", "0", "\n">>

UnixListings == {PS_Empty, PS_Blank, PS_One, PS_TokenOnlyThenOne, PS_Two, PS_NoCandidate}

\* CommandLine values of Win32_Process records
WIN_CmdA ==
    <<"l", "a", "n", "g", "u", "a", "g", "e", "_", "s", "e", "r", "v", "e",
      "r", "_", "w", "i", "n", "d", "o", "w", "s", "_", "x", "6", "4", ".",
      "e", "x", "e", " ", "-", "-", "c", "s", "r", "f", "_", "t", "o", "k",
      "e", "n", "=", "a", "1", "-", "F", " ", "-", "-", "e", "x", "t", "e",
      "n", "s", "i", "o", "n", "_", "s", "e", "r", "v", "e", "r", "_", "p",
      "o", "r", "t", "=", "4", "2", "1", "0", "0">>
WIN_CmdB ==
    <<"l", "a", "n", "g", "u", "a", "g", "e", "_", "s", "e", "r", "v", "e",
      "r", "_", "w", "i", "n", "d", "o", "w", "s", "_", "x", "6", "4", ".",
      "e", "x", "e", " ", "-", "-", "e", "x", "t", "e", "n", "s", "i", "o",
      "n", "_", "s", "e", "r", "v", "e", "r", "_", "p", "o", "r", "t", " ",
      "4", "2", "1", "0", "1", " ", "-", "-", "c", "s", "r", "f", "_", "t",
      "o", "k", "e", "n", " ", "7", "b">>
WIN_CmdPortOnly ==
    <<"l", "a", "n", "g", "u", "a", "g", "e", "_", "s", "e", "r", "v", "e",
      "r", "_", "w", "i", "n", "d", "o", "w", "s", "_", "x", "6", "4", ".",
      "e", "x", "e", " ", "-", "-", "e", "x", "t", "e", "n", "s", "i", "o",
      "n", "_", "s", "e", "r", "v", "e", "r", "_", "p", "o", "r", "t", "=",
      "4", "2", "1", "0", "0">>

WinProc(pid, cl) == [isNull |-> FALSE, ProcessId |-> pid, CommandLine |-> cl]
WinNull == [isNull |-> TRUE, ProcessId |-> 0, CommandLine |-> None]

\* stdout of the PowerShell pipeline, as JSON.parse reads it
WinListings ==
    { [kind |-> "blank", items |-> <<>>],
      [kind |-> "invalid", items |-> <<>>],
      [kind |-> "single", items |-> <<WinProc(4242, Some(WIN_CmdA))>>],
      [kind |-> "single", items |-> <<WinNull>>],
      [kind |-> "array", items |-> <<WinProc(77, None), WinProc(4343, Some(WIN_CmdB))>>],
      [kind |-> "array", items |-> <<WinProc(4242, Some(WIN_CmdA)), WinNull,
                                     WinProc(4343, Some(WIN_CmdB))>>],
      [kind |-> "array", items |-> <<WinProc(4242, Some(WIN_CmdA)),
                                     WinProc(4343, Some(WIN_CmdB))>>],
      [kind |-> "array", items |-> <<WinProc(77, Some(WIN_CmdPortOnly))>>] }

Listings(pf) == IF pf = "win32" THEN WinListings ELSE UnixListings

\* stdout of the port-listing pipelines
PL_One == <<"5", "0", "0", "0", "1", "\n">>
PL_Two == <<"5", "0", "0", "0", "1", "\n", "5", "0", "0", "0", "2", "\n">>
PL_Low == <<":", "8", "0", " ", "L", "\n">>
PL_Netstat ==
    <<" ", " ", "T", "C", "P", " ", " ", " ", " ", "1", "2", "7", ".", "0",
      ".", "0", ".", "1", ":", "5", "0", "0", "0", "2", " ", " ", " ", " ",
      "0", ".", "0", ".", "0", ".", "0", ":", "0", " ", " ", " ", " ", "L",
      "I", "S", "T", "E", "N", "I", "N", "G", " ", " ", " ", " ", "4", "2",
      "4", "2", "\r", "\n">>

UnixPortListings == {PL_One, PL_Two, PL_Low}
WinPortListings == {PL_Netstat, PL_Two, PL_Low}

PortListings(pf) == IF pf = "win32" THEN WinPortListings ELSE UnixPortListings

\* response bodies of the probed port
BODY_Empty == <<"{", "}">>
BODY_Error == <<"{", "\"", "c", "o", "d", "e", "\"", ":", "\"", "u", "n",
  "a", "u", "t", "h", "e", "n", "t", "i", "c", "a", "t", "e", "d", "\"",
  "}">>
BODY_Html == <<"<", "h", "t", "m", "l", ">", "5", "0", "2", "<", "/", "h", "t", "m", "l", ">">>

\* What a probe may end in: a complete response, a transport error, the
\* request's timeout, or https.request throwing.
Responses ==
    [kind : {"response"}, status : {200, 503}, body : {BODY_Empty, BODY_Error, BODY_Html}]
    \cup [kind : {"error", "timeout", "throw"}, status : {0}, body : {<<>>}]

----------------------------------------------------------------------------
(* ProcessHunter.scanEnvironment as a state machine.  Every await of the    *)
(* method (process listing, port listing, probe, backoff timer) is one      *)
(* step; the code between two awaits runs within the step.                  *)

MaxAttempts == 3

Platforms == {"win32", "darwin", "linux"}

\* !stdout || !stdout.trim()
stdoutBlank(pf, stdout) ==
    IF pf = "win32" THEN stdout.kind = "blank" ELSE Trim(stdout) = <<>>

\* A mutant: the loop runs once more than asked.
loopCondition_OffByOne(k, n) == k <= n

\* for (...; i < maxAttempts; ...)
loopCondition(k, n) == k < n

\* A mutant: scanEnvironment without its try/catch.
CaughtInScan_Missing == FALSE

\* The try/catch of scanEnvironment around one round.
CaughtInScan == TRUE

\* A mutant: identifyPorts without its try/catch.
CaughtInIdentifyPorts_Missing == FALSE

\* The try/catch of identifyPorts.
CaughtInIdentifyPorts == TRUE

\* A mutant: verifyConnection without its try/catch.
CaughtInVerifyConnection_Missing == FALSE

\* The try/catch of verifyConnection around one probe.
CaughtInVerifyConnection == TRUE

\* A mutant: only a 200 response is looked at.
testPort_RequiresOk(resp) ==
    resp.kind = "response" /\ resp.status = 200 /\ JSONParses(resp.body)

\* A mutant: any completed response counts as verified.
testPort_AnyResponse(resp) == resp.kind = "response"

\* testPort: the value its promise resolves to (r.kind = "throw" rejects it).
\* The status code is not read: the handlers are 'end' (JSON.parse of the
\* body decides), 'error' and 'timeout'.
testPort(resp) == resp.kind = "response" /\ JSONParses(resp.body)

\* The loop head with counter k: another round, or the final return null.
GoLoopHead(k) ==
    /\ i' = k
    /\ IF loopCondition(k, maxAttempts)
       THEN spc' = "list" /\ UNCHANGED result
       ELSE spc' = "returned" /\ result' = None

\* The end of a round's try block: the backoff wait unless it was the last.
GoAfterRound ==
    IF i < maxAttempts - 1
    THEN spc' = "backoff" /\ UNCHANGED <<i, result>>
    ELSE GoLoopHead(i + 1)

\* An exception inside the round's try block.
GoRoundThrew ==
    IF CaughtInScan THEN GoAfterRound
    ELSE spc' = "threw" /\ UNCHANGED <<i, result>>

\* verifyAndConnect returned null for candidate ci: the next candidate of the
\* round, or the end of the round.
GoNextCandidate ==
    IF ci < Len(candidates)
    THEN /\ ci' = ci + 1
         /\ spc' = "ports"
         /\ UNCHANGED <<i, result>>
    ELSE /\ ci' = ci
         /\ GoAfterRound

SInit ==
    /\ platform \in Platforms
    /\ spc = "idle"
    /\ maxAttempts = 0
    /\ i = 0
    /\ candidates = <<>>
    /\ ci = 0
    /\ ports = <<>>
    /\ pj = 0
    /\ result = None
    /\ listCalls = 0
    /\ verified = {}
    /\ lastProbe = None
    /\ errors = {}

\* A mutant: the hunter remembers the pairs it verified in earlier calls.
SCall_KeepsVerified(n) ==
    /\ spc = "idle"
    /\ maxAttempts' = n
    /\ listCalls' = 0
    /\ verified' = verified
    /\ lastProbe' = None
    /\ errors' = {}
    /\ candidates' = <<>>
    /\ ci' = 0
    /\ ports' = <<>>
    /\ pj' = 0
    /\ i' = 0
    /\ result' = None
    /\ spc' = IF loopCondition(0, n) THEN "list" ELSE "returned"
    /\ UNCHANGED <<platform, notScan>>

\* The caller invokes scanEnvironment(n).
SCall(n) ==
    /\ spc = "idle"
    /\ maxAttempts' = n
    /\ listCalls' = 0
    /\ verified' = {}
    /\ lastProbe' = None
    /\ errors' = {}
    /\ candidates' = <<>>
    /\ ci' = 0
    /\ ports' = <<>>
    /\ pj' = 0
    /\ i' = 0
    /\ result' = None
    /\ spc' = IF loopCondition(0, n) THEN "list" ELSE "returned"
    /\ UNCHANGED <<platform, notScan>>

\* await execAsync(getProcessListCommand()) settles: the command failed
\* (err), or printed stdout.
SList(err, stdout) ==
    /\ spc = "list"
    /\ listCalls' = listCalls + 1
    /\ UNCHANGED <<platform, maxAttempts, ports, pj, verified, lastProbe, notScan>>
    /\ errors' = errors \cup (IF err THEN {"list"}
                            ELSE IF platform = "win32" /\ stdout.kind = "invalid"
                            THEN {"parse"} ELSE {})
    /\ IF err
       THEN /\ UNCHANGED <<candidates, ci>>
            /\ GoRoundThrew
       ELSE IF stdoutBlank(platform, stdout)
       THEN \* continue: straight to i++, the backoff wait is not reached
            /\ UNCHANGED <<candidates, ci>>
            /\ GoLoopHead(i + 1)
       ELSE /\ candidates' = parseProcessInfo(platform, stdout)
            /\ IF Len(candidates') > 0
               THEN ci' = 1 /\ spc' = "ports" /\ UNCHANGED <<i, result>>
               ELSE ci' = 0 /\ GoAfterRound

\* await identifyPorts(info.pid) settles: the port-listing command failed
\* (err), or printed stdout.
SPorts(err, stdout) ==
    /\ spc = "ports"
    /\ UNCHANGED <<platform, maxAttempts, candidates, listCalls, verified, lastProbe, notScan>>
    /\ errors' = errors \cup (IF err THEN {"ports"} ELSE {})
    /\ IF err /\ ~CaughtInIdentifyPorts
       THEN UNCHANGED <<ports, pj, ci>> /\ GoRoundThrew
       ELSE /\ ports' = IF err THEN <<>> ELSE parsePortList(stdout)
            /\ IF Len(ports') > 0
               THEN pj' = 1 /\ spc' = "probe" /\ UNCHANGED <<ci, i, result>>
               ELSE pj' = 0 /\ GoNextCandidate

\* await testPort(port, csrfToken) settles with response resp.
SProbe(resp) ==
    /\ spc = "probe"
    /\ UNCHANGED <<platform, maxAttempts, candidates, ports, listCalls, notScan>>
    /\ LET info == candidates[ci]
           port == ports[pj]
           threw == resp.kind = "throw"
           isValid == ~threw /\ testPort(resp)
       IN  /\ lastProbe' = Some([resp |-> resp, accepted |-> isValid])
           /\ errors' = errors \cup (IF resp.kind # "response" THEN {"probe"} ELSE {})
           /\ verified' = IF resp.kind = "response" /\ JSONParses(resp.body)
                          THEN verified \cup {<<port, info.csrfToken>>}
                          ELSE verified
           /\ IF threw /\ ~CaughtInVerifyConnection
              THEN UNCHANGED <<ci, pj>> /\ GoRoundThrew
              ELSE IF isValid /\ port # 0
              THEN /\ result' = Some([extensionPort |-> info.extensionPort,
                                      connectPort |-> port,
                                      csrfToken |-> info.csrfToken])
                   /\ spc' = "returned"
                   /\ UNCHANGED <<i, ci, pj>>
              ELSE IF pj < Len(ports)
              THEN pj' = pj + 1 /\ UNCHANGED <<spc, i, ci, result>>
              ELSE pj' = pj /\ GoNextCandidate

\* The backoff timer fires: i++ and the next round.
SBackoff ==
    /\ spc = "backoff"
    /\ GoLoopHead(i + 1)
    /\ UNCHANGED <<platform, maxAttempts, candidates, ci, ports, pj,
                   listCalls, verified, lastProbe, errors, notScan>>

\* The caller has taken the result; the hunter is ready for the next call.
SDone ==
    /\ spc = "returned"
    /\ spc' = "idle"
    /\ UNCHANGED <<platform, maxAttempts, i, candidates, ci, ports, pj, result,
                   listCalls, verified, lastProbe, errors, notScan>>

ScanCall == \E n \in 1..MaxAttempts : SCall(n)
ScanListed == \E stdout \in Listings(platform) : SList(FALSE, stdout)
ScanListFailed == SList(TRUE, <<>>)
ScanPortsListed == \E stdout \in PortListings(platform) : SPorts(FALSE, stdout)
ScanPortsFailed == SPorts(TRUE, <<>>)
ScanProbed == \E resp \in Responses : SProbe(resp)

ScanInit == SInit /\ XIdle /\ CIdle /\ PIdle /\ EIdle /\ DIdle /\ FIdle

SNext ==
    \/ ScanCall
    \/ ScanListed
    \/ ScanListFailed
    \/ ScanPortsListed
    \/ ScanPortsFailed
    \/ ScanProbed
    \/ SBackoff
    \/ SDone

SpecScan == ScanInit /\ [][SNext]_vars

----------------------------------------------------------------------------
(* Claims about scanEnvironment *)

\* The result the code builds for candidate ci and port pj.
CurrentPair == [extensionPort |-> candidates[ci].extensionPort,
                connectPort |-> ports[pj],
                csrfToken |-> candidates[ci].csrfToken]

\* C1: a scan result is returned only for a port and token for which a probe
\* issued during that same call completed with a body that parsed as JSON.
C1_ResultWasVerified ==
    result # None => <<result[1].connectPort, result[1].csrfToken>> \in verified

\* C1 witness: in its second round or later a call has returned the pair of
\* the round's second candidate, the only pair verified during the call.
C1_Witness ==
    /\ spc = "returned"
    /\ result # None
    /\ ci = 2
    /\ verified = {<<result[1].connectPort, result[1].csrfToken>>}
    /\ listCalls >= 2

\* C2: a call that returns null has started the process listing exactly
\* maxAttempts times, whatever made each round unsuccessful.
C2_NullAfterExactlyMaxAttempts ==
    (spc = "returned" /\ result = None) => listCalls = maxAttempts

\* C2 witness: scanEnvironment(3) has returned null after three listings, a
\* probe having been rejected and a listing having failed on the way.
C2_Witness ==
    /\ spc = "returned"
    /\ result = None
    /\ maxAttempts = 3
    /\ listCalls = 3
    /\ lastProbe # None
    /\ "list" \in errors

\* C4: scanEnvironment never ends by throwing.
C4_NeverThrows == spc # "threw"

\* C4 witness: a call has returned after a failed listing, an unparsable
\* listing, a failed port query and a failed probe.
C4_Witness ==
    /\ spc = "returned"
    /\ errors = {"list", "parse", "ports", "probe"}

\* A completed response with the given body, whatever its status.
IsBody(r, body) == r.kind = "response" /\ r.body = body

\* C9: testPort accepts the bodies {} and {"code":"unauthenticated"} under
\* either status code, rejects the HTML page under either status code, and
\* rejects a transport error, a timeout and a request that could not be sent.
C9_ProbeAcceptsJsonBodyOnly ==
    lastProbe # None =>
        LET r == lastProbe[1].resp
            a == lastProbe[1].accepted
        IN  /\ IsBody(r, BODY_Empty) => a
            /\ IsBody(r, BODY_Error) => a
            /\ IsBody(r, BODY_Html) => ~a
            /\ r.kind \in {"error", "timeout", "throw"} => ~a

\* C9 witness: a 503 response with a JSON error body has been accepted.
C9_Witness ==
    /\ lastProbe # None
    /\ lastProbe[1].resp.status = 503
    /\ IsBody(lastProbe[1].resp, BODY_Error)
    /\ lastProbe[1].accepted
    /\ spc = "returned"
    /\ result # None

\* One step of a scan, as C10 orders it.
C10_Step ==
    LET accepted == lastProbe'[1].accepted
        candidateFailed ==
            \/ spc = "probe" /\ ~accepted /\ pj = Len(ports)
            \/ spc = "ports" /\ spc' # "probe"
    IN  \* the first port that verifies ends the scan with that result
        /\ (spc = "probe" /\ accepted) =>
               spc' = "returned" /\ result' = Some(CurrentPair)
        \* a rejected port is followed by the candidate's next port
        /\ (spc = "probe" /\ ~accepted /\ pj < Len(ports)) =>
               /\ spc' = "probe" /\ pj' = pj + 1
               /\ ci' = ci /\ ports' = ports /\ candidates' = candidates
        \* a candidate without verified port is followed by the next
        \* candidate of the same round
        /\ (candidateFailed /\ ci < Len(candidates)) =>
               /\ spc' = "ports" /\ ci' = ci + 1
               /\ candidates' = candidates /\ i' = i
        \* verification starts with the first candidate, in listing order
        \* (every sample listing is in increasing pid order), and with the
        \* candidate's first port
        /\ (spc = "list" /\ spc' = "ports") =>
               /\ ci' = 1
               /\ \A k \in 1..(Len(candidates') - 1) :
                      candidates'[k].pid < candidates'[k + 1].pid
        /\ (spc = "ports" /\ spc' = "probe") => pj' = 1 /\ ci' = ci
        \* nothing is probed once the scan has returned
        /\ spc = "returned" => spc' = "idle" /\ lastProbe' = lastProbe

\* C10: candidates are verified in list order, each candidate's ports in
\* discovery order; the first verified port ends the scan with that result
\* and a candidate with no verified port is followed by the next candidate
\* of the same round.
C10_VerificationOrder == [][C10_Step]_vars

\* C10 witness: the scan has returned the second port of the second
\* candidate.
C10_Witness ==
    /\ spc = "returned"
    /\ result # None
    /\ Len(candidates) = 2 /\ ci = 2
    /\ Len(ports) = 2 /\ pj = 2
    /\ result[1].connectPort = ports[2]
    /\ result[1].csrfToken = candidates[2].csrfToken

----------------------------------------------------------------------------
(* CredentialManager.getCredentials as a state machine.  Neither extraction *)
(* path contains an await: once called, a path runs to its end before any   *)
(* other callback of the process (running names the invocation that holds   *)
(* the thread).  The steps of a path are its file-system and child-process  *)
(* calls; an invocation yields at the two awaits of getCredentials.         *)

HOUR_MS == 3600000

\* Date.now() at the time of extraction
Times == {1000, 2000}

\* `antigravity_state_${Date.now()}_${randomId}.vscdb`: the names two
\* extractions may draw (equal when clock and random bytes coincide).
TempNames == {"state_1_aa", "state_1_bb"}

\* getDBPath(): the live database of the IDE
DB_PATH == "state.vscdb"

\* The state-sync record after base64 decoding; no bytes when the query
\* printed nothing.
\*   field 6 { field 1 = "tok" }
BUF_Token == <<50, 5, 10, 3, 116, 111, 107>>
\*   field 1 = varint 1, then field 6 { field 1 = "tok" }
BUF_TokenAfterVarint == <<8, 1, 50, 5, 10, 3, 116, 111, 107>>
\*   field 6 { field 1 = "" }
BUF_EmptyToken == <<50, 2, 10, 0>>
\*   field 1 = varint 1 only
BUF_NoOAuth == <<8, 1>>
\*   field 6 { field 2 = "x" }
BUF_NoToken == <<50, 3, 18, 1, 120>>

ProtoOutputs == {<<>>, BUF_Token, BUF_TokenAfterVarint, BUF_EmptyToken,
                 BUF_NoOAuth, BUF_NoToken}

API_KEY == <<107, 101, 121>>

\* The auth-status record as JSON.parse reads the query's output:
\*   "empty"    the query printed nothing
\*   "invalid"  JSON.parse throws
\*   "null"     the JSON value null (reading .apiKey throws)
\*   "object"   an object, apiKey being its apiKey property if it has one
JsonOutputs ==
    { [kind |-> "empty", apiKey |-> None],
      [kind |-> "invalid", apiKey |-> None],
      [kind |-> "null", apiKey |-> None],
      [kind |-> "object", apiKey |-> None],
      [kind |-> "object", apiKey |-> Some(<<>>)],
      [kind |-> "object", apiKey |-> Some(API_KEY)] }

\* A mutant: the lifetime is an hour counted in seconds.
Credential_HourInSeconds(token, now) ==
    [accessToken |-> token, refreshToken |-> <<>>, expiryDate |-> now + (HOUR_MS \div 1000)]

\* { accessToken, refreshToken: '', expiryDate: Date.now() + 60 * 60 * 1000 }
Credential(token, now) ==
    [accessToken |-> token, refreshToken |-> <<>>, expiryDate |-> now + HOUR_MS]

\* The try block of extractFromProtobuf after the query printed buffer (in
\* base64): the completion it ends in.
decodeProtobuf(buffer, now) ==
    IF buffer = <<>> THEN Returned(None)
    ELSE LET accessToken == extractAccessTokenFromProtobuf(buffer)
         IN  IF accessToken # None /\ accessToken[1] # <<>>
             THEN Returned(Some(Credential(accessToken[1], now)))
             ELSE Returned(None)

\* A mutant: an apiKey that is present is taken, the empty string too.
decodeAuthStatus_AnyApiKey(out, now) ==
    IF out.kind = "object" /\ out.apiKey # None
    THEN Returned(Some(Credential(out.apiKey[1], now)))
    ELSE Returned(None)

\* The try and catch blocks of extractFromAuthStatus after the query printed
\* out: the completion they end in.
decodeAuthStatus(out, now) ==
    IF out.kind = "object" /\ out.apiKey # None /\ out.apiKey[1] # <<>>
    THEN Returned(Some(Credential(out.apiKey[1], now)))
    ELSE Returned(None)

\* A mutant: the temporary copy is removed on the success path only.
cleanupNeeded_SuccessOnly(c) ==
    tempDB[c][1] \in files /\ pending[c].value # None

\* A mutant: the finally block removes nothing.
cleanupNeeded_Never(c) == FALSE

\* finally { if (fs.existsSync(tempDB)) ... }
cleanupNeeded(c) == tempDB[c][1] \in files

\* A mutant: the copy is made in the other direction.
CopyDest_LiveDatabase(c) == DB_PATH

\* fs.copyFileSync(dbPath, tempDB) writes tempDB.
CopyDest(c) == tempDB[c][1]

\* sqlite3 "${tempDB}" "${query}" opens tempDB.
QueryTarget(c) == tempDB[c][1]

\* A mutant: the fallback is tried even when the binary path gave a credential.
fallbackNeeded_Always(v) == TRUE

\* if (protobufCreds) return protobufCreds; -- otherwise the fallback runs
fallbackNeeded(v) == v = None

\* The path of invocation c ends with completion k: its promise settles, its
\* locals are gone and the thread is released.
PathEnds(c, k) ==
    /\ settled' = [settled EXCEPT ![c] = k]
    /\ tempDB' = [tempDB EXCEPT ![c] = None]
    /\ pending' = [pending EXCEPT ![c] = NoCompletion]
    /\ cpc' = [cpc EXCEPT ![c] = "await"]
    /\ running' = 0
    /\ yielded' = [yielded EXCEPT ![c] =
                      IF k.kind = "return" THEN Append(@, k.value) ELSE @]

\* getCredentials is invoked: it calls extractFromProtobuf at once.
CCall(c) ==
    /\ cpc[c] = "idle"
    /\ running = 0
    /\ cpath' = [cpath EXCEPT ![c] = "proto"]
    /\ cpc' = [cpc EXCEPT ![c] = "exists"]
    /\ running' = c
    /\ tempDB' = [tempDB EXCEPT ![c] = None]
    /\ pending' = [pending EXCEPT ![c] = NoCompletion]
    /\ settled' = [settled EXCEPT ![c] = NoCompletion]
    /\ cresult' = [cresult EXCEPT ![c] = None]
    /\ attempted' = [attempted EXCEPT ![c] = <<"proto">>]
    /\ yielded' = [yielded EXCEPT ![c] = <<>>]
    /\ created' = [created EXCEPT ![c] = {}]
    /\ leftover' = [leftover EXCEPT ![c] = {}]
    /\ UNCHANGED <<files, notCred>>

\* if (!dbPath || !fs.existsSync(dbPath)) return null; else tempDB is named.
CExists(c, name) ==
    /\ cpc[c] = "exists"
    /\ running = c
    /\ IF DB_PATH \in files
       THEN /\ tempDB' = [tempDB EXCEPT ![c] = Some(name)]
            /\ cpc' = [cpc EXCEPT ![c] = "copy"]
            /\ UNCHANGED <<settled, running, yielded, pending>>
       ELSE PathEnds(c, Returned(None))
    /\ UNCHANGED <<cpath, cresult, attempted, created, leftover, files, notCred>>

\* fs.copyFileSync(dbPath, tempDB): done ("ok"), failed before the copy was
\* created ("fail"), or failed leaving a partial copy ("partial").
CCopy(c, outcome) ==
    /\ cpc[c] = "copy"
    /\ running = c
    /\ outcome # "fail" => DB_PATH \in files
    /\ files' = IF outcome = "fail" THEN files ELSE files \cup {CopyDest(c)}
    /\ created' = [created EXCEPT ![c] =
                      IF outcome = "fail" THEN @ ELSE @ \cup {CopyDest(c)}]
    /\ IF outcome = "ok"
       THEN /\ cpc' = [cpc EXCEPT ![c] = "query"]
            /\ UNCHANGED pending
       ELSE /\ cpc' = [cpc EXCEPT ![c] = "finally"]
            /\ pending' = [pending EXCEPT ![c] = Returned(None)]
    /\ UNCHANGED <<cpath, tempDB, settled, cresult, attempted, yielded,
                   leftover, running, notCred>>

\* execSync(sqlite3 ...) threw: the catch block returns null.
CQueryFailed(c) ==
    /\ cpc[c] = "query"
    /\ running = c
    /\ cpc' = [cpc EXCEPT ![c] = "finally"]
    /\ pending' = [pending EXCEPT ![c] = Returned(None)]
    /\ UNCHANGED <<cpath, tempDB, settled, cresult, attempted, yielded,
                   created, leftover, files, running, notCred>>

\* execSync(sqlite3 ...) printed the state-sync record: it is decoded.
CQueryProto(c, buffer, now) ==
    /\ cpc[c] = "query"
    /\ cpath[c] = "proto"
    /\ running = c
    /\ QueryTarget(c) \in files
    /\ cpc' = [cpc EXCEPT ![c] = "finally"]
    /\ pending' = [pending EXCEPT ![c] = decodeProtobuf(buffer, now)]
    /\ UNCHANGED <<cpath, tempDB, settled, cresult, attempted, yielded,
                   created, leftover, files, running, notCred>>

\* execSync(sqlite3 ...) printed the auth-status record: it is decoded.
CQueryJson(c, out, now) ==
    /\ cpc[c] = "query"
    /\ cpath[c] = "json"
    /\ running = c
    /\ QueryTarget(c) \in files
    /\ cpc' = [cpc EXCEPT ![c] = "finally"]
    /\ pending' = [pending EXCEPT ![c] = decodeAuthStatus(out, now)]
    /\ UNCHANGED <<cpath, tempDB, settled, cresult, attempted, yielded,
                   created, leftover, files, running, notCred>>

\* finally { if (fs.existsSync(tempDB)) fs.unlinkSync(tempDB); }
\* unlinkSync removes the copy (unlinkOk) or throws, and an exception thrown
\* in a finally block replaces the completion of the try and catch blocks.
CFinally(c, unlinkOk) ==
    /\ cpc[c] = "finally"
    /\ running = c
    /\ LET name == tempDB[c][1]
           removed == cleanupNeeded(c) /\ unlinkOk
       IN  /\ files' = IF removed THEN files \ {name} ELSE files
           /\ leftover' = [leftover EXCEPT ![c] =
                              IF name \in files' THEN @ \cup {name} ELSE @]
           /\ PathEnds(c, IF cleanupNeeded(c) /\ ~unlinkOk
                          THEN Thrown ELSE pending[c])
    /\ UNCHANGED <<cpath, cresult, attempted, created, notCred>>

\* The await of getCredentials resumes with the path's completion: the
\* exception is rethrown, the credential is returned, or, after the binary
\* path, extractFromAuthStatus is called; after the fallback its value is
\* returned, null included.
CResume(c) ==
    /\ cpc[c] = "await"
    /\ running = 0
    /\ IF settled[c].kind = "throw"
       THEN /\ cpc' = [cpc EXCEPT ![c] = "threw"]
            /\ UNCHANGED <<cpath, tempDB, pending, settled, cresult, attempted,
                           running>>
       ELSE IF cpath[c] = "proto" /\ fallbackNeeded(settled[c].value)
       THEN /\ cpath' = [cpath EXCEPT ![c] = "json"]
            /\ cpc' = [cpc EXCEPT ![c] = "exists"]
            /\ running' = c
            /\ tempDB' = [tempDB EXCEPT ![c] = None]
            /\ pending' = [pending EXCEPT ![c] = NoCompletion]
            /\ settled' = [settled EXCEPT ![c] = NoCompletion]
            /\ attempted' = [attempted EXCEPT ![c] = Append(@, "json")]
            /\ UNCHANGED cresult
       ELSE /\ cpc' = [cpc EXCEPT ![c] = "returned"]
            /\ cresult' = [cresult EXCEPT ![c] = settled[c].value]
            /\ UNCHANGED <<cpath, tempDB, pending, settled, attempted, running>>
    /\ UNCHANGED <<yielded, created, leftover, files, notCred>>

\* The caller has taken the outcome: the invocation is over, and what was
\* recorded about it is dropped.
CDone(c) ==
    /\ cpc[c] \in {"returned", "threw"}
    /\ cpc' = [cpc EXCEPT ![c] = "idle"]
    /\ cpath' = [cpath EXCEPT ![c] = "proto"]
    /\ tempDB' = [tempDB EXCEPT ![c] = None]
    /\ pending' = [pending EXCEPT ![c] = NoCompletion]
    /\ settled' = [settled EXCEPT ![c] = NoCompletion]
    /\ cresult' = [cresult EXCEPT ![c] = None]
    /\ attempted' = [attempted EXCEPT ![c] = <<>>]
    /\ yielded' = [yielded EXCEPT ![c] = <<>>]
    /\ created' = [created EXCEPT ![c] = {}]
    /\ leftover' = [leftover EXCEPT ![c] = {}]
    /\ UNCHANGED <<files, running, notCred>>

\* Outside getCredentials: the IDE creates its database, or it is removed.
\* The extraction paths are synchronous and look at the database once, so a
\* change is seen between two of them; a database that goes away between
\* existsSync and copyFileSync shows as the copy failing.
CDatabaseChanges ==
    /\ running = 0
    /\ files' = IF DB_PATH \in files THEN files \ {DB_PATH}
                                      ELSE files \cup {DB_PATH}
    /\ UNCHANGED <<cpc, cpath, tempDB, pending, settled, cresult, attempted,
                   yielded, created, leftover, running, notCred>>

CredCall == \E c \in Calls : CCall(c)
CredExists == \E c \in Calls : \E name \in TempNames : CExists(c, name)
CredCopy == \E c \in Calls : \E o \in {"ok", "fail", "partial"} : CCopy(c, o)
CredQueryFailed == \E c \in Calls : CQueryFailed(c)
CredQueryProto == \E c \in Calls : \E b \in ProtoOutputs : \E t \in Times : CQueryProto(c, b, t)
CredQueryJson == \E c \in Calls : \E o \in JsonOutputs : \E t \in Times : CQueryJson(c, o, t)
CredFinally == \E c \in Calls : \E ok \in BOOLEAN : CFinally(c, ok)
CredResume == \E c \in Calls : CResume(c)
CredDone == \E c \in Calls : CDone(c)

CredInit == CIdle /\ XIdle /\ SIdle /\ PIdle /\ EIdle /\ DIdle /\ FIdle

CNext ==
    \/ CredCall
    \/ CredExists
    \/ CredCopy
    \/ CredQueryFailed
    \/ CredQueryProto
    \/ CredQueryJson
    \/ CredFinally
    \/ CredResume
    \/ CredDone
    \/ CDatabaseChanges

SpecCred == CredInit /\ [][CNext]_vars

\* execSync(sqlite3 ...) is given an encoding and no timeout option: when the
\* child never exits the call never returns, and it blocks the one thread.
CQueryHangs(c) ==
    /\ cpc[c] = "query"
    /\ running = c
    /\ cpc' = [cpc EXCEPT ![c] = "blocked"]
    /\ UNCHANGED <<cpath, tempDB, pending, settled, cresult, attempted, yielded,
                   created, leftover, files, running, notCred>>

CredQueryHangs == \E c \in Calls : CQueryHangs(c)

\* The steps invocation c takes by itself once getCredentials was called.
CRuns(c) ==
    \/ \E name \in TempNames : CExists(c, name)
    \/ \E o \in {"ok", "fail", "partial"} : CCopy(c, o)
    \/ CQueryFailed(c)
    \/ \E b \in ProtoOutputs : \E t \in Times : CQueryProto(c, b, t)
    \/ \E o \in JsonOutputs : \E t \in Times : CQueryJson(c, o, t)
    \/ CQueryHangs(c)
    \/ \E ok \in BOOLEAN : CFinally(c, ok)
    \/ CResume(c)

CNextHang == CNext \/ CredQueryHangs

\* The event loop runs every continuation that is ready, and synchronous code
\* runs on: an invocation that can step again and again does step.
SpecCredFair ==
    CredInit /\ [][CNextHang]_vars /\ \A c \in Calls : SF_vars(CRuns(c))

\* The same without the child that never exits.
SpecCredFairNoHang ==
    CredInit /\ [][CNext]_vars /\ \A c \in Calls : SF_vars(CRuns(c))

\* getCredentials has been called in slot c and has not settled yet.
InFlight(c) == cpc[c] \notin {"idle", "returned", "threw"}

\* C19, as stated: temporary copies of different in-flight invocations whose
\* lifetimes overlap have distinct paths: no invocation has copied onto the
\* copy another in-flight invocation left in place, and no such copy has been
\* deleted by another invocation.
C19_DistinctTempPaths ==
    \A c \in Calls : \A d \in Calls \ {c} :
        InFlight(c) /\ InFlight(d) =>
            /\ cpc[c] = "query" => tempDB[c][1] \notin leftover[d]
            /\ leftover[d] \subseteq files

\* The files of the set f that are not in the set g.
Gone(f, g) == f \ g

\* What a step of an invocation (cpc changes) may do to the files: it neither
\* creates nor deletes the live database and never copies onto it; a file it
\* creates or deletes is the one at the temporary path of the running
\* invocation; without the live database the path ends at once, no file
\* created; and a query is only ever started on a copy the invocation made.
C20_Step ==
    cpc' # cpc =>
        /\ (DB_PATH \in files') <=> (DB_PATH \in files)
        /\ \A c \in Calls : DB_PATH \notin created'[c]
        /\ Gone(files', files) \cup Gone(files, files') # {} =>
              /\ running \in Calls
              /\ tempDB[running] # None
              /\ Gone(files', files) \cup Gone(files, files') = {tempDB[running][1]}
              /\ tempDB[running][1] \in TempNames
        /\ \A c \in Calls :
              cpc[c] = "exists" /\ cpc'[c] # "exists" /\ DB_PATH \notin files =>
                  /\ cpc'[c] = "await"
                  /\ settled'[c] = Returned(None)
                  /\ files' = files
                  /\ created'[c] = created[c]
        /\ \A c \in Calls :
              cpc'[c] = "query" =>
                  /\ QueryTarget(c)' \in TempNames
                  /\ QueryTarget(c)' \in created'[c] \cap files'

\* C20: getCredentials never writes to or deletes the live database file;
\* the only files it creates or deletes are its temporary copies, every query
\* runs against a copy, and when the database file does not exist no
\* temporary file is created.
C20_LiveDatabaseUntouched == [][C20_Step]_vars

\* One invocation found no database and its path returned null with nothing
\* created; the database then appeared and another invocation queries its
\* copy of it.
C20_Witness ==
    \E c \in Calls : \E d \in Calls \ {c} :
        /\ cpc[c] = "await"
        /\ settled[c] = Returned(None)
        /\ created[c] = {}
        /\ cpc[d] = "query"
        /\ DB_PATH \in files
        /\ QueryTarget(d) \in created[d] \cap files

\* C18, as stated for getCredentials: every call eventually returns (or
\* rejects), also when the database query never responds.
C18_EveryCallReturns ==
    \A c \in Calls : (cpc[c] # "idle") ~> (cpc[c] \in {"returned", "threw"})

----------------------------------------------------------------------------
(* Claims about getCredentials *)

C5_NeverThrows == \A c \in Calls : cpc[c] # "threw"

\* C6: getCredentials calls the binary path first and the JSON path second;
\* it returns the binary path's credential without calling the JSON path when
\* that credential is not null, otherwise what the JSON path returned, so
\* null exactly when both paths returned null.
C6_ProtobufFirstThenAuthStatus ==
    \A c \in Calls :
        /\ attempted[c] \in {<<>>, <<"proto">>, <<"proto", "json">>}
        /\ cpc[c] = "returned" =>
              /\ Len(yielded[c]) = Len(attempted[c])
              /\ IF yielded[c][1] # None
                 THEN attempted[c] = <<"proto">> /\ cresult[c] = yielded[c][1]
                 ELSE attempted[c] = <<"proto", "json">> /\ cresult[c] = yielded[c][2]
              /\ cresult[c] = None <=> \A k \in 1..Len(yielded[c]) : yielded[c][k] = None

\* Both outcomes of the fallback have been seen: one call returned the JSON
\* path's credential, another returned null without the database file.
C6_Witness ==
    /\ \E c \in Calls :
          /\ cpc[c] = "returned"
          /\ yielded[c][1] = None
          /\ cresult[c] # None
    /\ \E c \in Calls :
          /\ cpc[c] = "returned"
          /\ cresult[c] = None
          /\ created[c] = {}

\* The stored value is non-empty, parses as JSON and has a truthy apiKey.
HasTruthyApiKey(out) ==
    /\ out.kind \notin {"empty", "invalid"}
    /\ out.kind = "object"
    /\ out.apiKey # None
    /\ out.apiKey[1] # <<>>

C28_Step ==
    \A c \in Calls :
        /\ (cpc[c] = "query" /\ cpath[c] = "json")
           => \A out \in JsonOutputs : \A now \in Times :
                 CQueryJson(c, out, now)
                 => pending'[c] =
                       Returned(IF HasTruthyApiKey(out)
                                THEN Some(Credential(out.apiKey[1], now)) ELSE None)
        /\ ( /\ cpath[c] = "json"
             /\ cpc[c] = "finally"
             /\ settled'[c].kind = "return" )
           => settled'[c] = pending[c]

\* C28: when the JSON path has read the stored value and returns, it returns
\* a credential exactly when the value is non-empty, parses as JSON and has
\* a truthy apiKey, and the credential's access token is that apiKey; with
\* no row, invalid JSON or no apiKey it returns null.
C28_JsonPathByApiKey == [][C28_Step]_vars

\* The JSON path of invocation 1 returned a credential made of the apiKey.
C28_Witness ==
    /\ cpath[1] = "json"
    /\ cpc[1] = "await"
    /\ \E now \in Times : settled[1] = Returned(Some(Credential(API_KEY, now)))

\* A credential taken at one of the times of extraction.
WellFormedCredential(cred) ==
    /\ cred.accessToken # <<>>
    /\ cred.refreshToken = <<>>
    /\ \E now \in Times : cred.expiryDate = now + 3600000

\* C29: every credential that an extraction path builds, and so every
\* non-null credential getCredentials returns, from either path, has a
\* non-empty accessToken, an empty refreshToken and an expiryDate of the
\* time of extraction plus 3,600,000 ms.
C29_CredentialShape ==
    \A c \in Calls :
        /\ (pending[c].kind = "return" /\ pending[c].value # None)
           => WellFormedCredential(pending[c].value[1])
        /\ (settled[c].kind = "return" /\ settled[c].value # None)
           => WellFormedCredential(settled[c].value[1])
        /\ cresult[c] # None => WellFormedCredential(cresult[c][1])

\* getCredentials returned a credential of the binary path in slot 1 and one
\* of the JSON path in slot 2.
C29_Witness ==
    /\ cpc[1] = "returned" /\ attempted[1] = <<"proto">> /\ cresult[1] # None
    /\ cpc[2] = "returned" /\ attempted[2] = <<"proto", "json">> /\ cresult[2] # None

----------------------------------------------------------------------------
(* The binary record reader applied to built inputs: readVarint at an       *)
(* offset of a buffer, and the two-level lookup of                          *)
(* extractAccessTokenFromProtobuf on a record.                              *)

MaxGroups == 5
MaxRawBytes == 4
MaxPre == 1

\* An unsigned integer is written by its base-128 digits, least significant
\* first, the last one not 0 unless it is the only one.
GroupValues == {0, 1, 8, 127}
Numerals ==
    {g \in UNION {[1..n -> GroupValues] : n \in 1..MaxGroups} :
        Len(g) = 1 \/ g[Len(g)] # 0}

\* The continuation-bit encoding of the integer with digits g.
EncodeGroups(g) == [k \in 1..Len(g) |-> IF k < Len(g) THEN g[k] + 128 ELSE g[k]]

\* The digits of a number below 2^31.
RECURSIVE ToGroups(_)
ToGroups(n) == IF n < 128 THEN <<n>> ELSE <<n % 128>> \o ToGroups(n \div 128)

\* A field of the wire format: the tag, then for wire type 2 the length.
Field(num, wireType, payload) ==
    EncodeGroups(ToGroups(num * 8 + wireType))
    \o (IF wireType = 2 THEN EncodeGroups(ToGroups(Len(payload))) ELSE <<>>)
    \o payload

\* UTF-8 of a string of code points below 2048.
RECURSIVE Utf8(_)
Utf8(cps) ==
    IF cps = <<>> THEN <<>>
    ELSE LET cp == Head(cps)
         IN  (IF cp < 128 THEN <<cp>>
              ELSE <<192 + (cp \div 64), 128 + (cp % 64)>>) \o Utf8(Tail(cps))

\* Well-formed fields that are neither the sub-message nor the token.
OtherFields ==
    { Field(1, 0, <<1>>),
      Field(6, 0, <<255, 255, 255, 255, 15>>),
      Field(4, 1, <<0, 0, 0, 0, 0, 0, 0, 0>>),
      Field(7, 5, <<1, 2, 3, 4>>),
      Field(2, 2, <<50>>) }

Preceding == {Flatten(fs) : fs \in UNION {[1..n -> OtherFields] : n \in 0..MaxPre}}

\* What may precede the token inside the sub-message: nothing or one field.
PrecedingInner == {<<>>} \cup OtherFields

\* "tok", "é", "ya29"
Tokens == {<<116, 111, 107>>, <<233>>, <<121, 97, 50, 57>>}

ProtoInput(kind, buffer, offset, groups, token, intact) ==
    [kind |-> kind, buffer |-> buffer, offset |-> offset, groups |-> groups,
     token |-> token, intact |-> intact]

\* The encoding of a number at an offset of a buffer.
VarintInputs ==
    { ProtoInput("varint", pad \o EncodeGroups(g) \o rest, Len(pad), g, <<>>, TRUE) :
        pad \in {<<>>, <<255>>}, rest \in {<<>>, <<1>>}, g \in Numerals }

\* Any bytes, read at any offset up to one past the end.
RawInputs ==
    UNION { { ProtoInput("raw", b, o, <<>>, <<>>, TRUE) : o \in 0..(Len(b) + 1) } :
              b \in UNION {[1..n -> {1, 128, 255}] : n \in 0..MaxRawBytes} }

\* A record whose field 6 holds a sub-message whose field 1 holds a token.
Records ==
    { [token |-> t,
       bytes |-> a \o Field(6, 2, b \o Field(1, 2, Utf8(t)) \o c) \o c] :
        a \in Preceding, b \in PrecedingInner, c \in {<<>>, Field(1, 0, <<1>>)},
        t \in Tokens }

\* A record, whole or cut short after any number of bytes.
MessageInputs ==
    UNION { { ProtoInput("message", SubSeq(r.bytes, 1, n), 0, <<>>, r.token,
                         n = Len(r.bytes)) : n \in 0..Len(r.bytes) } :
              r \in Records }

ProtoInputs == VarintInputs \cup RawInputs \cup MessageInputs

PInit ==
    /\ ppc = "input"
    /\ pin \in {Some(x) : x \in ProtoInputs}
    /\ pout = None
    /\ XIdle
    /\ SIdle
    /\ CIdle
    /\ EIdle
    /\ DIdle
    /\ FIdle

\* readVarint(buffer, offset)
PRead ==
    /\ ppc = "input"
    /\ pin[1].kind \in {"varint", "raw"}
    /\ pout' = Some([varint |-> readVarint(pin[1].buffer, pin[1].offset),
                     token |-> None])
    /\ ppc' = "done"
    /\ UNCHANGED <<pin, notProto>>

\* extractAccessTokenFromProtobuf(buffer)
PExtract ==
    /\ ppc = "input"
    /\ pin[1].kind = "message"
    /\ pout' = Some([varint |-> readVarint(pin[1].buffer, 0),
                     token |-> extractAccessTokenFromProtobuf(pin[1].buffer)])
    /\ ppc' = "done"
    /\ UNCHANGED <<pin, notProto>>

PNext == PRead \/ PExtract

SpecProto == PInit /\ [][PNext]_vars

----------------------------------------------------------------------------
(* Claims about the binary record reader *)

\* The number of bytes of the varint that starts bytes (0 when bytes ends
\* before a byte with a clear continuation bit).
VarintLen(bytes) ==
    LET ends == {k \in 1..Len(bytes) : bytes[k] < 128}
    IN  IF ends = {} THEN 0 ELSE CHOOSE k \in ends : \A e \in ends : k <= e

\* The value of a varint of at most four bytes.
RECURSIVE SmallValue(_, _)
SmallValue(bytes, n) ==
    IF n = 0 THEN 0 ELSE (bytes[1] % 128) + 128 * SmallValue(Tail(bytes), n - 1)

Drop(bytes, n) == SubSeq(bytes, n + 1, Len(bytes))

\* How a buffer reads as a sequence of fields: "ok", or what is wrong with
\* the first field that is not whole.
RECURSIVE Diagnosis(_)
Diagnosis(bytes) ==
    IF bytes = <<>> THEN "ok"
    ELSE LET tl == VarintLen(bytes)
             wireType == SmallValue(bytes, tl) % 8
             body == Drop(bytes, tl)
             vl == VarintLen(body)
         IN  IF tl = 0 THEN "mid-varint"
             ELSE IF wireType = 0
             THEN IF vl = 0 THEN "mid-varint" ELSE Diagnosis(Drop(body, vl))
             ELSE IF wireType = 2
             THEN IF vl = 0 THEN "mid-varint"
                  ELSE IF SmallValue(body, vl) > Len(body) - vl THEN "length"
                  ELSE Diagnosis(Drop(body, vl + SmallValue(body, vl)))
             ELSE IF wireType = 1
             THEN IF Len(body) < 8 THEN "fixed" ELSE Diagnosis(Drop(body, 8))
             ELSE IF wireType = 5
             THEN IF Len(body) < 4 THEN "fixed" ELSE Diagnosis(Drop(body, 4))
             ELSE "wire-type"

\* C11, as stated: for a buffer that ends in the middle of a varint, or in
\* which a length-delimited field declares more bytes than remain, the
\* extractor finds no token (null, or the empty string its caller takes for
\* null), never a part of one.
C11_MalformedGivesNull ==
    (/\ ppc = "done"
     /\ pin # None
     /\ pin[1].kind = "message"
     /\ Diagnosis(pin[1].buffer) \in {"mid-varint", "length"})
    => pout[1].token \in {None, Some(<<>>)}

\* C12: from a record whose field 6 holds a sub-message whose field 1 holds
\* the UTF-8 bytes of a non-empty token, the two-level lookup returns exactly
\* that token, also when well-formed fields of wire types 0, 1, 2 and 5
\* precede at either level.
C12_TokenFound ==
    (/\ ppc = "done"
     /\ pin # None
     /\ pin[1].kind = "message"
     /\ pin[1].intact)
    => pout[1].token = Some(pin[1].token)

\* C12 witness: the token "é" has been found behind a 64-bit field at the
\* outer level and a length-delimited field at the inner level.
C12_Witness ==
    /\ ppc = "done"
    /\ pin # None
    /\ pin[1].kind = "message"
    /\ pin[1].intact
    /\ pin[1].token = <<233>>
    /\ pin[1].buffer =
          Field(4, 1, <<0, 0, 0, 0, 0, 0, 0, 0>>)
          \o Field(6, 2, Field(2, 2, <<50>>) \o Field(1, 2, Utf8(<<233>>)))
    /\ pout[1].token = Some(<<233>>)

\* C13, as stated: reading the continuation-bit encoding of an unsigned
\* integer v placed at offset o returns v and o plus the number of encoded
\* bytes, for every v.
C13_VarintRoundTrip ==
    (/\ ppc = "done"
     /\ pin # None
     /\ pin[1].kind = "varint")
    => /\ pout[1].varint.newOffset = pin[1].offset + Len(pin[1].groups)
       /\ pout[1].varint.value >= 0
       /\ ToGroups(pout[1].varint.value) = pin[1].groups

\* C14: readVarint returns value 0 and the starting offset exactly when no
\* byte at or after the starting offset has a clear continuation bit (a start
\* at or past the end included); otherwise the new offset is greater than the
\* starting offset and at most the buffer length.
C14_NoProgressIffUnterminated ==
    (/\ ppc = "done"
     /\ pin # None
     /\ pin[1].kind \in {"raw", "varint"})
    => LET buffer == pin[1].buffer
           offset == pin[1].offset
           r == pout[1].varint
           unterminated == \A k \in (offset + 1)..Len(buffer) : buffer[k] >= 128
       IN  /\ (r.value = 0 /\ r.newOffset = offset) <=> unterminated
           /\ ~unterminated => r.newOffset > offset /\ r.newOffset <= Len(buffer)

\* C14 witness: a read that starts inside the buffer on continuation bytes
\* only has returned 0 and the starting offset.
C14_Witness ==
    /\ ppc = "done"
    /\ pin # None
    /\ pin[1].kind = "raw"
    /\ pin[1].offset > 0
    /\ pin[1].offset + 1 < Len(pin[1].buffer)
    /\ pin[1].buffer[pin[1].offset] = 1
    /\ \A k \in (pin[1].offset + 1)..Len(pin[1].buffer) : pin[1].buffer[k] >= 128
    /\ pout[1].varint = [value |-> 0, newOffset |-> pin[1].offset]

----------------------------------------------------------------------------
(* Claims about the rounds of scanEnvironment *)

\* C15, as stated: the process listing of a later round is started only by
\* the end of the backoff wait, whatever made the earlier round unsuccessful.
C15_Step == (spc' = "list" /\ i' = i + 1) => spc = "backoff"

C15_BackoffBeforeRetry == [][C15_Step]_vars

\* A round ends: verification leaves the candidates other than by returning
\* a result.
RoundEnds ==
    /\ spc \in {"ports", "probe"}
    /\ spc' \notin {"ports", "probe"}
    /\ ~(spc' = "returned" /\ result' # None)

\* C16: a failure for one candidate (port-query error, no listening port,
\* every probe rejected) does not end the round: the round ends, and the next
\* listing can start, only once the last candidate of the list and the last
\* of its ports have been tried, and until then each step of verification
\* stays in the round, at the same candidate's next port or at the next
\* candidate.
C16_Step ==
    /\ RoundEnds =>
          /\ ci = Len(candidates)
          /\ spc = "probe" => pj = Len(ports)
          /\ spc' \in {"backoff", "list", "returned"}
          /\ listCalls' = listCalls
    /\ (spc \in {"ports", "probe"} /\ spc' \in {"ports", "probe"}) =>
          /\ i' = i /\ listCalls' = listCalls /\ candidates' = candidates
          /\ \/ ci' = ci /\ (spc = "ports" \/ pj' = pj + 1)
             \/ ci' = ci + 1 /\ spc' = "ports"
    /\ listCalls' # listCalls =>
          spc \in {"idle", "list"} /\ listCalls' \in {0, listCalls + 1}

C16_RoundsComplete == [][C16_Step]_vars

\* C16 witness: the second listing is about to start after a round of two
\* candidates in which a port query failed and a probe was rejected.
C16_Witness ==
    /\ spc = "list"
    /\ listCalls = 1
    /\ i = 1
    /\ Len(candidates) = 2
    /\ ci = 2
    /\ {"ports", "probe"} \subseteq errors

\* What a call starts from, whatever an earlier call left behind: nothing
\* listed, nothing verified, no candidate, no port, no result.
FreshScan ==
    /\ listCalls = 0
    /\ verified = {}
    /\ lastProbe = None
    /\ errors = {}
    /\ candidates = <<>>
    /\ ci = 0
    /\ ports = <<>>
    /\ pj = 0
    /\ i = 0
    /\ result = None

C30_Step ==
    /\ platform' = platform
    /\ (spc = "idle" /\ spc' # "idle") => FreshScan'
    /\ (spc # "returned" /\ spc' = "returned")
       => /\ listCalls' >= 1
          /\ result' # None
             => <<result'[1].connectPort, result'[1].csrfToken>> \in verified'

----------------------------------------------------------------------------
(* The extension's event handlers.  Each handler runs to its next await     *)
(* without interruption; the awaited scan and fetch settle as events of     *)
(* their own.  scanEnvironment is seen from its caller here: it returns a   *)
(* result or null.  getConfig() gives whatever the settings are when a      *)
(* handler starts; the handler's config is an input of the step that uses   *)
(* it, updateStatusBar.                                                     *)

TimerIds == {1, 2}

ModelIds == {"a", "b"}

ModelQuota(modelId, remainingPercentage) ==
    [modelId |-> modelId, remainingPercentage |-> remainingPercentage]

QuotaSnapshot(isConnected, models) == [isConnected |-> isConnected, models |-> models]

\* What fetchQuotaSnapshot returns when both of its paths failed.
Disconnected == QuotaSnapshot(FALSE, <<>>)

Snapshots ==
    { Disconnected,
      QuotaSnapshot(TRUE, <<>>),
      QuotaSnapshot(TRUE, <<ModelQuota("a", 30)>>),
      QuotaSnapshot(TRUE, <<ModelQuota("a", 10), ModelQuota("b", 50)>>),
      QuotaSnapshot(TRUE, <<ModelQuota("b", 10), ModelQuota("a", 50)>>) }

ExtensionConfig(showNotifications, statusBarPosition, hiddenModels) ==
    [showNotifications |-> showNotifications, notificationThreshold |-> 30,
     statusBarPosition |-> statusBarPosition, hiddenModels |-> hiddenModels]

\* getConfig()
Configs ==
    { ExtensionConfig(TRUE, "right", {}),
      ExtensionConfig(TRUE, "left", {"a"}),
      ExtensionConfig(TRUE, "right", {"a", "b"}),
      ExtensionConfig(FALSE, "right", {}) }

\* What the awaited fetch gives: a snapshot, or an exception in the try block.
FetchOutcomes ==
    {[kind |-> "throw", snapshot |-> Disconnected]}
    \cup {[kind |-> "snapshot", snapshot |-> sn] : sn \in Snapshots}

\* The items of a list as a bag.
BagOfSeq(items) ==
    [x \in {items[k] : k \in DOMAIN items} |->
        Cardinality({k \in DOMAIN items : items[k] = x})]

\* A mutant: clearStatusBarItems forgets the items without disposing them.
Disposed_Nothing(items) == EmptyBag

\* clearStatusBarItems: item.dispose() for every item of statusBarItems
Disposed(items) == BagOfSeq(items)

Loading(text, visible) == Some([text |-> text, visible |-> visible])

\* hideLoading()
hideLoading(item) == IF item = None THEN None ELSE Loading(item[1].text, FALSE)

\* snapshot.models.filter(m => !config.hiddenModels.includes(m.modelId))
visibleModels(snapshot, config) ==
    SelectSeq(snapshot.models, LAMBDA m : m.modelId \notin config.hiddenModels)

Reverse(q) == [k \in 1..Len(q) |-> q[Len(q) + 1 - k]]

\* A mutant: the loop warns without looking at the notified set.
RECURSIVE notifyLoop_AlwaysWarn(_, _, _, _)
notifyLoop_AlwaysWarn(models, threshold, notified, warned) ==
    IF models = <<>> THEN [notified |-> notified, warned |-> warned]
    ELSE LET m == Head(models)
         IN  IF m.remainingPercentage <= threshold
             THEN notifyLoop_AlwaysWarn(Tail(models), threshold,
                                        notified \cup {m.modelId}, Append(warned, m.modelId))
             ELSE notifyLoop_AlwaysWarn(Tail(models), threshold,
                                        notified \ {m.modelId}, warned)

\* The notification loop over snapshot.models.
RECURSIVE notifyLoop(_, _, _, _)
notifyLoop(models, threshold, notified, warned) ==
    IF models = <<>> THEN [notified |-> notified, warned |-> warned]
    ELSE LET m == Head(models)
         IN  IF m.remainingPercentage <= threshold
             THEN IF m.modelId \notin notified
                  THEN notifyLoop(Tail(models), threshold,
                                  notified \cup {m.modelId}, Append(warned, m.modelId))
                  ELSE notifyLoop(Tail(models), threshold, notified, warned)
             ELSE notifyLoop(Tail(models), threshold, notified \ {m.modelId}, warned)

\* The model ids of a list of models.
IdsOf(models) == [k \in 1..Len(models) |-> models[k].modelId]

\* updateStatusBar(snapshot, config)
updateStatusBar(snapshot, config) ==
    LET cleared == liveItems (-) Disposed(statusBarItems)
        visible == visibleModels(snapshot, config)
        models == IF config.statusBarPosition = "right" THEN Reverse(visible)
                  ELSE visible
        shown == IdsOf(models)
        told == IF config.showNotifications
                THEN notifyLoop(snapshot.models, config.notificationThreshold,
                                notifiedModels, <<>>)
                ELSE [notified |-> {}, warned |-> <<>>]
        early == IF ~snapshot.isConnected THEN "No Connection"
                 ELSE IF Len(snapshot.models) = 0 THEN "No Data"
                 ELSE IF Len(visible) = 0 THEN "No Visible Models"
                 ELSE "none"
    IN  /\ lastUpdate' = Some([snapshot |-> snapshot, config |-> config])
        /\ IF early # "none"
           THEN /\ statusBarItems' = <<>>
                /\ liveItems' = cleared
                /\ loadingStatusBarItem' = Loading(early, TRUE)
                /\ warnings' = <<>>
                /\ UNCHANGED notifiedModels
           ELSE /\ statusBarItems' = shown
                /\ liveItems' = cleared (+) BagOfSeq(shown)
                /\ loadingStatusBarItem' = hideLoading(loadingStatusBarItem)
                /\ notifiedModels' = told.notified
                /\ warnings' = told.warned

\* The loading item gets a text and is shown, if it exists.
LoadingSays(text) ==
    /\ loadingStatusBarItem' =
          IF loadingStatusBarItem = None THEN None ELSE Loading(text, TRUE)
    /\ UNCHANGED <<statusBarItems, liveItems, notifiedModels, warnings, lastUpdate>>

\* showLoading()
showLoading ==
    /\ loadingStatusBarItem' = Loading("spin", TRUE)
    /\ UNCHANGED <<statusBarItems, liveItems, notifiedModels, warnings, lastUpdate>>

\* refreshQuota or showQuotaDetails is called in slot r and runs to its first
\* await: of connectToAntigravity, which shows the loading item, when there
\* is no client, else of the fetch.
OpStarts(r, kind) ==
    /\ opc[r] = "idle"
    /\ opc' = [opc EXCEPT ![r] = IF apiClient = None THEN "connect1" ELSE "fetch"]
    /\ okind' = [okind EXCEPT ![r] = kind]

\* A mutant: startRefreshTimer sets the next timer without clearing the last.
StartRefreshTimer_NoClear(r) ==
    /\ OpStarts(r, "refresh")
    /\ \E id \in TimerIds :
          /\ id \notin timers
          /\ timers' = timers \cup {id}
          /\ refreshTimer' = Some(id)

\* startRefreshTimer: clear the previous timer, refresh once, set the next.
StartRefreshTimer(r) ==
    /\ OpStarts(r, "refresh")
    /\ \E id \in TimerIds :
          LET kept == IF refreshTimer = None THEN timers
                      ELSE timers \ {refreshTimer[1]}
          IN  /\ id \notin kept
              /\ timers' = kept \cup {id}
              /\ refreshTimer' = Some(id)

\* activate(context): the loading item is shown, then startRefreshTimer.
EActivate(r) ==
    /\ estate = "inactive"
    /\ estate' = "active"
    /\ StartRefreshTimer(r)
    /\ showLoading
    /\ UNCHANGED <<apiClient, notExt>>

\* onDidChangeConfiguration affecting antigravityStatus
EConfigChange(r) ==
    /\ estate = "active"
    /\ StartRefreshTimer(r)
    /\ IF apiClient = None THEN showLoading ELSE UNCHANGED bar
    /\ UNCHANGED <<estate, apiClient, notExt>>

\* The interval timer fires.
ETick(r) ==
    /\ timers # {}
    /\ OpStarts(r, "refresh")
    /\ IF apiClient = None THEN showLoading ELSE UNCHANGED bar
    /\ UNCHANGED <<estate, apiClient, refreshTimer, timers, notExt>>

\* The commands antigravityStatus.refresh and antigravityStatus.showDetails
ECommand(r, kind) ==
    /\ estate = "active"
    /\ OpStarts(r, kind)
    /\ IF apiClient = None THEN showLoading ELSE UNCHANGED bar
    /\ UNCHANGED <<estate, apiClient, refreshTimer, timers, notExt>>

\* hunter.scanEnvironment(3) returns to connectToAntigravity, which sets the
\* client when a result came, and its caller goes on: to the fetch, or, with
\* no result, refreshQuota says "Not found" after its first scan and shows
\* the snapshot that was not connected after its second.
EScanReturns(r, found) ==
    /\ opc[r] \in {"connect1", "connect2"}
    /\ apiClient' = IF found THEN Some("client") ELSE apiClient
    /\ opc' = [opc EXCEPT ![r] =
                  IF ~found THEN "idle"
                  ELSE IF opc[r] = "connect1" THEN "fetch" ELSE "refetch"]
    /\ IF found \/ okind[r] = "details" THEN UNCHANGED bar
       ELSE IF opc[r] = "connect1" THEN LoadingSays("Not found")
       ELSE \E config \in Configs : updateStatusBar(Disconnected, config)
    /\ UNCHANGED <<estate, refreshTimer, timers, okind, notExt>>

\* fetchQuotaSnapshot settles, or the try block throws.  refreshQuota shows
\* a connected snapshot; after one that is not connected it drops the client
\* and scans again, and what the second fetch gives is shown as it is; an
\* exception drops the client.  showQuotaDetails changes nothing here.
EFetchReturns(r, outcome) ==
    /\ opc[r] \in {"fetch", "refetch"}
    /\ IF okind[r] = "details"
       THEN /\ opc' = [opc EXCEPT ![r] = "idle"]
            /\ UNCHANGED <<apiClient, bar>>
       ELSE IF outcome.kind = "throw"
       THEN /\ opc' = [opc EXCEPT ![r] = "idle"]
            /\ apiClient' = None
            /\ LoadingSays("Error")
       ELSE IF ~outcome.snapshot.isConnected /\ opc[r] = "fetch"
       THEN /\ opc' = [opc EXCEPT ![r] = "connect2"]
            /\ apiClient' = None
            /\ showLoading
       ELSE /\ opc' = [opc EXCEPT ![r] = "idle"]
            /\ UNCHANGED apiClient
            /\ \E config \in Configs : updateStatusBar(outcome.snapshot, config)
    /\ UNCHANGED <<estate, refreshTimer, timers, okind, notExt>>

\* deactivate()
EDeactivate ==
    /\ estate = "active"
    /\ estate' = "deactivated"
    /\ timers' = IF refreshTimer = None THEN timers ELSE timers \ {refreshTimer[1]}
    /\ refreshTimer' = None
    /\ UNCHANGED <<apiClient, opc, okind, bar, notExt>>

ExtActivate == \E r \in Ops : EActivate(r)
ExtConfigChange == \E r \in Ops : EConfigChange(r)
ExtTick == \E r \in Ops : ETick(r)
ExtCommand == \E r \in Ops : \E kind \in {"refresh", "details"} : ECommand(r, kind)
ExtScanReturns == \E r \in Ops : \E found \in BOOLEAN : EScanReturns(r, found)
ExtFetchReturns == \E r \in Ops : \E outcome \in FetchOutcomes : EFetchReturns(r, outcome)

ExtInit == EIdle /\ XIdle /\ SIdle /\ CIdle /\ PIdle /\ DIdle /\ FIdle

ENext ==
    \/ ExtActivate
    \/ ExtConfigChange
    \/ ExtTick
    \/ ExtCommand
    \/ ExtScanReturns
    \/ ExtFetchReturns
    \/ EDeactivate

SpecExt == ExtInit /\ [][ENext]_vars

\* The scanEnvironment calls that have not returned yet.
ScansInFlight == {r \in Ops : opc[r] \in {"connect1", "connect2"}}

\* C17, as stated: the extension never has two scanEnvironment calls in
\* flight at once.
C17_NoOverlappingScans == Cardinality(ScansInFlight) <= 1

\* The models of a snapshot that are low and were not notified before.
DueWarnings(snapshot, config, notified) ==
    { snapshot.models[k].modelId : k \in
        { j \in DOMAIN snapshot.models :
            /\ snapshot.models[j].remainingPercentage <= config.notificationThreshold
            /\ snapshot.models[j].modelId \notin notified } }

C24_Step ==
    \A snapshot \in Snapshots : \A config \in Configs :
        ( /\ updateStatusBar(snapshot, config)
          /\ snapshot.isConnected
          /\ config.showNotifications )
        => DueWarnings(snapshot, config, notifiedModels)
              \subseteq {warnings'[k] : k \in DOMAIN warnings'}

\* C24, as stated: in every step in which updateStatusBar processes a
\* connected snapshot with showNotifications enabled, every model of the
\* snapshot that is at or below notificationThreshold and was not in the
\* notified set before the step gets a warning message in that step.
C24_LowModelsWarned == [][C24_Step]_vars

\* C25: after updateStatusBar has processed a connected snapshot, the live
\* per-model items are, one for one, the models of that snapshot whose
\* modelId is not in the hiddenModels of the config it was called with: no
\* item of an earlier update is left and no hidden model has one.
C25_ItemsMatchVisibleModels ==
    (lastUpdate # None /\ lastUpdate[1].snapshot.isConnected)
    => /\ liveItems =
            BagOfSeq(IdsOf(visibleModels(lastUpdate[1].snapshot, lastUpdate[1].config)))
       /\ BagOfSeq(statusBarItems) = liveItems

\* An update with two models, of which the hidden one has no item.
C25_Witness ==
    /\ lastUpdate =
          Some([snapshot |-> QuotaSnapshot(TRUE, <<ModelQuota("a", 10), ModelQuota("b", 50)>>),
                config |-> ExtensionConfig(TRUE, "left", {"a"})])
    /\ statusBarItems = <<"b">>

----------------------------------------------------------------------------
(* Port discovery applied to the sockets of the operating system.  The      *)
(* commands of getPortListCommand are modelled by what netstat, findstr,    *)
(* lsof, ss, grep and awk print for a table of TCP sockets; the text is     *)
(* then read by parsePortList.                                              *)

MaxSockets == 2
MaxPortPieces == 3

\* `${pid}`: the decimal digits of a number
RECURSIVE ToText(_)
ToText(n) ==
    IF n < 10 THEN <<Digits[n + 1]>>
    ELSE ToText(n \div 10) \o <<Digits[(n % 10) + 1]>>

\* The text t occurs in the text s (findstr and grep with a literal pattern).
Contains(s, t) ==
    \E p \in 1..(Len(s) - Len(t) + 1) : SubSeq(s, p, p + Len(t) - 1) = t

\* A TCP socket: its local address family and port, the port of its remote
\* address (0 when listening), its state and the process that owns it.
Socket(family, localPort, remotePort, state, owner) ==
    [family |-> family, localPort |-> localPort, remotePort |-> remotePort,
     state |-> state, owner |-> owner]

LongerPid == (10 * XPid) + 1

SampleSockets ==
    { Socket("v4", 50001, 0, "LISTEN", XPid),
      Socket("v6", 50001, 0, "LISTEN", XPid),
      Socket("v4", 80, 0, "LISTEN", XPid),
      Socket("v4", 50003, 443, "ESTABLISHED", XPid),
      Socket("v4", 50002, 0, "LISTEN", 77),
      Socket("v4", XPid, 0, "LISTEN", 77),
      Socket("v4", 50004, 0, "LISTEN", LongerPid) }

\* The socket tables: up to MaxSockets different sockets, in any order.
SocketTables ==
    {t \in UNION {[1..n -> SampleSockets] : n \in 0..MaxSockets} :
        \A j, k \in 1..Len(t) : j # k => t[j] # t[k]}

\* "0.0.0.0:" or "[::]:" in front of a port
AddressText(family) ==
    IF family = "v4" THEN <<"0", ".", "0", ".", "0", ".", "0", ":">>
    ELSE <<"[", ":", ":", "]", ":">>

LISTENING == <<"L", "I", "S", "T", "E", "N", "I", "N", "G">>
ESTABLISHED == <<"E", "S", "T", "A", "B", "L", "I", "S", "H", "E", "D">>

\* One line of netstat -ano:  TCP  local  foreign  state  pid
NetstatLine(sk) ==
    <<" ", " ", "T", "C", "P", " ", " ">>
    \o AddressText(sk.family) \o ToText(sk.localPort) \o <<" ", " ">>
    \o AddressText(sk.family) \o ToText(sk.remotePort) \o <<" ", " ">>
    \o (IF sk.state = "LISTEN" THEN LISTENING ELSE ESTABLISHED) \o <<" ", " ">>
    \o ToText(sk.owner) \o <<"\r", "\n">>

PID_EQ == <<"p", "i", "d", "=">>

\* One line of ss -tlnp:  LISTEN 0 128 local peer users:(("ls",pid=N,fd=9))
SsLine(sk) ==
    <<"L", "I", "S", "T", "E", "N", " ", "0", " ", "1", "2", "8", " ">>
    \o AddressText(sk.family) \o ToText(sk.localPort) \o <<" ">>
    \o AddressText(sk.family) \o <<"*", " ">>
    \o <<"u", "s", "e", "r", "s", ":", "(", "(", "\"", "l", "s", "\"", ",">>
    \o PID_EQ \o ToText(sk.owner) \o <<",", "f", "d", "=", "9", ")", ")", "\n">>

\* The lines f prints for the sockets of t that satisfy keep, in order.
RECURSIVE LinesOf(_, _, _)
LinesOf(t, platformName, pid) ==
    IF t = <<>> THEN <<>>
    ELSE LET sk == Head(t)
             rest == LinesOf(Tail(t), platformName, pid)
         IN  CASE platformName = "win32" ->
                    \* netstat -ano | findstr ":${pid}" | findstr "LISTENING"
                    IF /\ Contains(NetstatLine(sk), <<":">> \o ToText(pid))
                       /\ Contains(NetstatLine(sk), LISTENING)
                    THEN <<NetstatLine(sk)>> \o rest ELSE rest
               [] platformName = "darwin" ->
                    \* lsof -nP -iTCP -sTCP:LISTEN -a -p ${pid} | awk $9 | grep -oE '[0-9]+$'
                    IF sk.state = "LISTEN" /\ sk.owner = pid
                    THEN <<ToText(sk.localPort) \o <<"\n">>>> \o rest ELSE rest
               [] OTHER ->
                    \* ss -tlnp | grep "pid=${pid}" | awk $4 | grep -oE '[0-9]+$'
                    IF /\ sk.state = "LISTEN"
                       /\ Contains(SsLine(sk), PID_EQ \o ToText(pid))
                    THEN <<ToText(sk.localPort) \o <<"\n">>>> \o rest ELSE rest

\* getPortListCommand(pid) run on the socket table t: what it prints.
getPortListCommand(platformName, pid, t) == Flatten(LinesOf(t, platformName, pid))

\* identifyPorts(pid): a pipeline whose last filter selects nothing exits
\* with status 1, execAsync rejects and the catch block returns [].
identifyPorts(platformName, pid, t) ==
    LET stdout == getPortListCommand(platformName, pid, t)
    IN  IF stdout = <<>> THEN <<>> ELSE parsePortList(stdout)

\* Texts for parsePortList, built from pieces.
PortPieces ==
    { <<":", "8", "0", " ">>, <<"5", "0", "0", "0", "1">>,
      <<":", "5", "0", "0", "0", "1", " ">>, <<"7", "0", "0", "0", "0">>,
      <<"1", "0", "2", "3">>, <<"1", "0", "2", "4">>,
      <<":", "6", "5", "5", "3", "5", " ">>, <<"\n">>, <<"a">> }

PortTexts == {Flatten(ps) : ps \in UNION {[1..n -> PortPieces] : n \in 0..MaxPortPieces}}

DiscoveryInputs ==
    { [kind |-> "sockets", platform |-> pf, pid |-> XPid, sockets |-> t,
       text |-> <<>>] : pf \in Platforms, t \in SocketTables }
    \cup { [kind |-> "text", platform |-> "linux", pid |-> 0, sockets |-> <<>>,
            text |-> x] : x \in PortTexts }

DInit ==
    /\ dpc = "input"
    /\ din \in {Some(x) : x \in DiscoveryInputs}
    /\ dout = <<>>
    /\ XIdle
    /\ SIdle
    /\ CIdle
    /\ PIdle
    /\ EIdle
    /\ FIdle

\* identifyPorts(pid) on the sockets of the OS
DIdentify ==
    /\ dpc = "input"
    /\ din[1].kind = "sockets"
    /\ dout' = identifyPorts(din[1].platform, din[1].pid, din[1].sockets)
    /\ dpc' = "done"
    /\ UNCHANGED <<din, notPorts>>

\* parsePortList(stdout) on a text
DParse ==
    /\ dpc = "input"
    /\ din[1].kind = "text"
    /\ dout' = parsePortList(din[1].text)
    /\ dpc' = "done"
    /\ UNCHANGED <<din, notPorts>>

DNext == DIdentify \/ DParse

SpecPorts == DInit /\ [][DNext]_vars

\* C21, as stated: each port yielded by port discovery for process id p is
\* the local port of a TCP socket in LISTEN state owned by process p, on
\* every platform.
C21_PortsOfOwnedListeners ==
    dpc = "done" /\ din[1].kind = "sockets" =>
        \A k \in 1..Len(dout) :
            \E j \in 1..Len(din[1].sockets) :
                /\ din[1].sockets[j].localPort = dout[k]
                /\ din[1].sockets[j].state = "LISTEN"
                /\ din[1].sockets[j].owner = din[1].pid

\* C22: every port returned by port-list parsing lies in [1024, 65535] and
\* the returned list contains no duplicate.
C22_PortsInRangeNoDuplicate ==
    dpc = "done" =>
        /\ \A k \in 1..Len(dout) : dout[k] >= PORT_MIN /\ dout[k] <= PORT_MAX
        /\ \A j, k \in 1..Len(dout) : j # k => dout[j] # dout[k]

\* A line with a port below the range and the same port twice has been read.
C22_Witness ==
    /\ dpc = "done"
    /\ din[1].kind = "text"
    /\ din[1].text = <<":", "8", "0", " ", ":", "5", "0", "0", "0", "1", " ",
                       ":", "5", "0", "0", "0", "1", " ">>
    /\ dout = <<50001>>

----------------------------------------------------------------------------
(* The extension left alone with a language server that is up: process XPid *)
(* listens on ServerSocket, that port answers every probe with JSON and     *)
(* every fetch with a connected snapshot, and nobody runs a command or      *)
(* changes a setting.  A scan then finds the server exactly when port       *)
(* discovery yields its port.                                               *)

ServerSocket == Socket("v4", 50001, 0, "LISTEN", XPid)

\* The server's socket and a listener of another process.
ServerSockets == <<Socket("v4", XPid, 0, "LISTEN", 77), ServerSocket>>

\* Whether port discovery yields the server's port, by platform.
YieldsServerPort ==
    [p \in Platforms |->
        LET found == identifyPorts(p, XPid, ServerSockets)
        IN  \E k \in DOMAIN found : found[k] = ServerSocket.localPort]

\* connectToAntigravity: whether hunter.scanEnvironment(3) gives a result.
ScanFinds == YieldsServerPort[platform]

ConnectedSnapshots == {sn \in Snapshots : sn.isConnected}

ServedFetch(r) ==
    \E sn \in ConnectedSnapshots :
        EFetchReturns(r, [kind |-> "snapshot", snapshot |-> sn])

ExtScanServed == \E r \in Ops : EScanReturns(r, ScanFinds)
ExtFetchServed == \E r \in Ops : ServedFetch(r)

ExtFairInit == EIdle /\ SInit /\ XIdle /\ CIdle /\ PIdle /\ DIdle /\ FIdle

EFairNext ==
    \/ ExtActivate
    \/ ExtTick
    \/ ExtScanServed
    \/ ExtFetchServed

\* The interval timer keeps firing, and every scan and every fetch settles.
SpecExtFair ==
    /\ ExtFairInit
    /\ [][EFairNext]_vars
    /\ WF_vars(ExtTick)
    /\ \A r \in Ops : WF_vars(EScanReturns(r, ScanFinds)) /\ WF_vars(ServedFetch(r))

ShowsConnected ==
    /\ apiClient # None
    /\ lastUpdate # None
    /\ lastUpdate[1].snapshot.isConnected

\* C23, as stated: with the language server up and its port answering, the
\* activated extension eventually holds an API client and shows a connected
\* snapshot, by its timer alone.
C23_EventuallyConnected == (estate = "active") ~> ShowsConnected

----------------------------------------------------------------------------
(* The field walk of findProtobufField taken one pass of its loop at a      *)
(* time, on buffers that encode a list of fields and on buffers put         *)
(* together from pieces of the wire format that need not fit each other.    *)

MaxWalkFields == 3
MaxWalkPieces == 3

FieldRec(num, wireType, payload) ==
    [num |-> num, wireType |-> wireType, payload |-> payload]

\* Fields of every wire type; field 3 opens a group (wire type 3).
WalkFields ==
    { FieldRec(1, 0, <<1>>),
      FieldRec(1, 2, <<50>>),
      FieldRec(6, 2, <<51, 52>>),
      FieldRec(2, 2, <<>>),
      FieldRec(4, 1, <<0, 0, 0, 0, 0, 0, 0, 0>>),
      FieldRec(1, 5, <<1, 2, 3, 4>>),
      FieldRec(3, 3, <<>>) }

WalkTargets == {1, 6}

RECURSIVE EncodeFields(_)
EncodeFields(fields) ==
    IF fields = <<>> THEN <<>>
    ELSE Field(Head(fields).num, Head(fields).wireType, Head(fields).payload)
         \o EncodeFields(Tail(fields))

\* Tags of fields 1 and 2 with wire types 0, 1, 2, 3 and 5, a varint cut
\* short, small values, and two lengths of five bytes: 2^31 - 1 and
\* 0xfffffffa, which the 32-bit | of readVarint makes -6.
WalkPieces ==
    { <<8>>, <<9>>, <<10>>, <<11>>, <<13>>, <<18>>, <<128>>, <<0>>, <<1>>,
      <<255, 255, 255, 255, 7>>,
      <<250, 255, 255, 255, 15>> }

WalkInput(kind, buffer, targetField, fields) ==
    [kind |-> kind, buffer |-> buffer, targetField |-> targetField, fields |-> fields]

WalkInputs ==
    { WalkInput("fields", EncodeFields(fs), tf, fs) :
        fs \in UNION {[1..n -> WalkFields] : n \in 0..MaxWalkFields}, tf \in WalkTargets }
    \cup
    { WalkInput("pieces", Flatten(ps), tf, <<>>) :
        ps \in UNION {[1..n -> WalkPieces] : n \in 0..MaxWalkPieces}, tf \in WalkTargets }

Walk(offset, found) == Some([offset |-> offset, result |-> found])

\* findProtobufField(buffer, targetField) is called: offset = 0.
WInit ==
    /\ ppc = "walk"
    /\ pin \in {Some(x) : x \in WalkInputs}
    /\ pout = Walk(0, None)
    /\ XIdle
    /\ SIdle
    /\ CIdle
    /\ EIdle
    /\ DIdle
    /\ FIdle

WalkStep == fieldStep(pin[1].buffer, pin[1].targetField, pout[1].offset)

\* One pass through the loop body that ends at the loop test again.
WPass ==
    /\ ppc = "walk"
    /\ WalkStep.kind = "next"
    /\ pout' = Walk(WalkStep.offset, None)
    /\ UNCHANGED <<ppc, pin, notProto>>

\* The loop test fails, or the pass ends in a break or a return.
WReturn ==
    /\ ppc = "walk"
    /\ WalkStep.kind = "end"
    /\ pout' = Walk(pout[1].offset, WalkStep.result)
    /\ ppc' = "done"
    /\ UNCHANGED <<pin, notProto>>

WNext == WPass \/ WReturn

SpecWalk == WInit /\ [][WNext]_vars

C26_Step ==
    (ppc = "walk" /\ ppc' = "walk") => pout'[1].offset > pout[1].offset

\* C26, as stated: every pass of the loop of the field walk that does not
\* stop the walk strictly increases the offset, so that the walk ends on
\* every finite buffer.
C26_OffsetIncreases == [][C26_Step]_vars

\* What the walk is to give for a list of fields: the payload of the first
\* field of wire type 2 with the target number, unless a field of a wire
\* type other than 0, 1, 2 and 5 comes first.
RECURSIVE FirstMatch(_, _)
FirstMatch(fields, targetField) ==
    IF fields = <<>> THEN None
    ELSE LET f == Head(fields)
         IN  IF f.wireType = 2 /\ f.num = targetField THEN Some(f.payload)
             ELSE IF f.wireType \in {0, 1, 2, 5}
             THEN FirstMatch(Tail(fields), targetField)
             ELSE None

\* C27: on a buffer that encodes a list of fields the walk returns the
\* payload of the first wire-type-2 field with the target number, having
\* skipped the fields before it by their wire type (a field with the target
\* number and another wire type among them), and returns null once it meets
\* a wire type other than 0, 1, 2 and 5, whatever follows.
C27_FirstMatchingField ==
    (ppc = "done" /\ pin[1].kind = "fields")
    => pout[1].result = FirstMatch(pin[1].fields, pin[1].targetField)

\* The walk stopped at a group although a matching field follows it, and
\* the walk passed a varint field with the target number.
C27_Witness ==
    /\ ppc = "done"
    /\ pin[1].kind = "fields"
    /\ pin[1].targetField = 1
    /\ \/ /\ pin[1].fields = <<FieldRec(1, 0, <<1>>), FieldRec(3, 3, <<>>),
                               FieldRec(1, 2, <<50>>)>>
          /\ pout[1].result = None
       \/ /\ pin[1].fields = <<FieldRec(1, 0, <<1>>), FieldRec(1, 5, <<1, 2, 3, 4>>),
                               FieldRec(1, 2, <<50>>)>>
          /\ pout[1].result = Some(<<50>>)


\* ======================================================================
\* AntigravityApiClient: fetchQuotaSnapshot and the two response parsers
\* (src/src/extension.ts)
\* ======================================================================

WARNING_THRESHOLD == 50
CRITICAL_THRESHOLD == 20

\* The longest model list of a response body.
MaxModels == 2

\* Fractions are carried in thousandths: 1000 is the fraction 1.
clamp(value, min, max) ==
    LET low == IF value > min THEN value ELSE min
    IN  IF low < max THEN low ELSE max

\* Math.round(remainingFraction * 100), half-way values rounding up.
RoundPercentage(remainingFraction) == (remainingFraction + 5) \div 10

determineStatus(remainingPercentage, warningThreshold, criticalThreshold) ==
    IF remainingPercentage <= criticalThreshold THEN "critical"
    ELSE IF remainingPercentage <= warningThreshold THEN "warning"
    ELSE "normal"

allowedModels ==
    {"Gemini 3 Pro (High)", "Gemini 3 Pro (Low)", "Gemini 3 Flash",
     "Claude Sonnet 4.5", "Claude Sonnet 4.5 (Thinking)",
     "Claude Opus 4.5 (Thinking)", "GPT-OSS 120B (Medium)", "Gemini 3 Pro Image"}

\* The labels of the responses, in the order localeCompare puts them.
LabelOrder == <<"Claude Sonnet 4.5", "Gemini 3 Flash", "Other Model">>
LabelRank(label) == CHOOSE k \in DOMAIN LabelOrder : LabelOrder[k] = label
Labels == {LabelOrder[k] : k \in DOMAIN LabelOrder}

\* A quota record is absent (None) or present, and a present record has a
\* remaining fraction or lacks it.
QuotaInfos ==
    {None} \cup {Some([remainingFraction |-> f]) :
                    f \in {None, Some(-500), Some(204), Some(1500)}}
ModelInfos ==
    {[label |-> l, quotaInfo |-> q] : l \in Labels, q \in QuotaInfos}

RECURSIVE ModelLists(_)
ModelLists(n) ==
    IF n = 0 THEN {<<>>}
    ELSE LET shorter == ModelLists(n - 1)
         IN  shorter \cup {Append(l, m) : l \in {x \in shorter : Len(x) = n - 1},
                                         m \in ModelInfos}

\* A response body: null, an object without the model list, or an object
\* with one.
ResponseBody(kind, models) == [kind |-> kind, models |-> models]
ResponseBodies ==
    {ResponseBody("null", <<>>), ResponseBody("empty", <<>>)}
    \cup {ResponseBody("models", l) : l \in ModelLists(MaxModels)}

ProcessedModelQuota(label, remainingPercentage, status) ==
    [label |-> label, remainingPercentage |-> remainingPercentage, status |-> status]

\* models.sort((a, b) => a.label.localeCompare(b.label)): the sort is stable,
\* so models of one label keep their order.
RECURSIVE SortFromRank(_, _)
SortFromRank(models, rank) ==
    IF rank > Len(LabelOrder) THEN <<>>
    ELSE SelectSeq(models, LAMBDA m : LabelRank(m.label) = rank)
         \o SortFromRank(models, rank + 1)

SortByLabel(models) == SortFromRank(models, 1)

directFraction_MissingIsFull(quotaInfo) ==
    IF quotaInfo # None
    THEN IF quotaInfo[1].remainingFraction # None
         THEN clamp(quotaInfo[1].remainingFraction[1], 0, 1000)
         ELSE 1000
    ELSE 1000

\* quotaInfo ? clamp(quotaInfo.remainingFraction ?? 0, 0, 1) : 1
directFraction(quotaInfo) ==
    IF quotaInfo # None
    THEN IF quotaInfo[1].remainingFraction # None
         THEN clamp(quotaInfo[1].remainingFraction[1], 0, 1000)
         ELSE clamp(0, 0, 1000)
    ELSE 1000

RECURSIVE directModels(_, _, _)
directModels(infos, warningThreshold, criticalThreshold) ==
    IF infos = <<>> THEN <<>>
    ELSE LET info == Head(infos)
             rest == directModels(Tail(infos), warningThreshold, criticalThreshold)
             remainingPercentage == RoundPercentage(directFraction(info.quotaInfo))
         IN  IF info.label \notin allowedModels THEN rest
             ELSE <<ProcessedModelQuota(info.label, remainingPercentage,
                        determineStatus(remainingPercentage, warningThreshold,
                                        criticalThreshold))>> \o rest

\* parseDirectApiResponse on a body that is an object.
parseDirectApiResponse(data, warningThreshold, criticalThreshold) ==
    IF data.kind = "empty" THEN <<>>
    ELSE SortByLabel(directModels(data.models, warningThreshold, criticalThreshold))

RECURSIVE localModels(_, _, _)
localModels(configs, warningThreshold, criticalThreshold) ==
    IF configs = <<>> THEN <<>>
    ELSE LET config == Head(configs)
             rest == localModels(Tail(configs), warningThreshold, criticalThreshold)
             remainingFraction ==
                 clamp(IF config.quotaInfo[1].remainingFraction # None
                       THEN config.quotaInfo[1].remainingFraction[1] ELSE 0, 0, 1000)
             remainingPercentage == RoundPercentage(remainingFraction)
         IN  IF config.quotaInfo = None THEN rest
             ELSE <<ProcessedModelQuota(config.label, remainingPercentage,
                        determineStatus(remainingPercentage, warningThreshold,
                                        criticalThreshold))>> \o rest

\* parseLocalApiResponse on a body that is an object.
parseLocalApiResponse(data, warningThreshold, criticalThreshold) ==
    IF data.kind = "empty" THEN <<>>
    ELSE SortByLabel(localModels(data.models, warningThreshold, criticalThreshold))

FetchedSnapshot(isConnected, models, source, errorMessage) ==
    [isConnected |-> isConnected, models |-> models, source |-> source,
     errorMessage |-> errorMessage]

\* The catch block of fetchQuotaSnapshot.
FetchFailed == FetchedSnapshot(FALSE, <<>>, "none", "error.apiStatusFailed")

FReturns(snapshot, data) ==
    /\ fpc' = "returned"
    /\ fsnapshot' = Some(snapshot)
    /\ fdata' = data

FGoesOn(pc) ==
    /\ fpc' = pc
    /\ UNCHANGED <<fdata, fsnapshot>>

\* fetchQuotaSnapshot is called: with a credential manager it awaits
\* getCredentials first, without one it goes to the local call.
FCall(hasManager) ==
    /\ fpc \in {"idle", "returned"}
    /\ fseen' = [NotCalled EXCEPT !.creds = IF hasManager THEN "awaited" ELSE "none"]
    /\ fpc' = IF hasManager THEN "creds" ELSE "local"
    /\ fdata' = None
    /\ fsnapshot' = None
    /\ UNCHANGED notFetch

\* getCredentials settles: a credential with an access token, one without,
\* null, or a rejection, which the catch of fetchFromDirectApi turns into null.
FCreds(outcome) ==
    /\ fpc = "creds"
    /\ fseen' = [fseen EXCEPT !.creds = outcome]
    /\ FGoesOn(IF outcome = "token" THEN "project" ELSE "local")
    /\ UNCHANGED notFetch

\* resolveProjectId settles: it catches its own errors and gives an id or null.
FProject(outcome) ==
    /\ fpc = "project"
    /\ fseen' = [fseen EXCEPT !.project = outcome]
    /\ FGoesOn(IF outcome = "id" THEN "cloud" ELSE "local")
    /\ UNCHANGED notFetch

\* The cloud call rejects (network, time-out, status), or resolves with a body.
\* Parsing a null body throws inside the try of fetchFromDirectApi.
FCloud(rejects, data) ==
    /\ fpc = "cloud"
    /\ IF rejects
       THEN fseen' = [fseen EXCEPT !.cloud = "rejected"] /\ FGoesOn("local")
       ELSE IF data.kind = "null"
       THEN fseen' = [fseen EXCEPT !.cloud = "unparsed"] /\ FGoesOn("local")
       ELSE /\ fseen' = [fseen EXCEPT !.cloud = "parsed"]
            /\ FReturns(FetchedSnapshot(TRUE,
                   parseDirectApiResponse(data, WARNING_THRESHOLD, CRITICAL_THRESHOLD),
                   "direct", ""), Some(data))
    /\ UNCHANGED notFetch

FLocal_NoCatch(rejects, data) ==
    /\ fpc = "local"
    /\ IF rejects
       THEN /\ fseen' = [fseen EXCEPT !.local = "rejected"]
            /\ fpc' = "threw"
            /\ UNCHANGED <<fdata, fsnapshot>>
       ELSE IF data.kind = "null"
       THEN fseen' = [fseen EXCEPT !.local = "unparsed"] /\ FReturns(FetchFailed, None)
       ELSE /\ fseen' = [fseen EXCEPT !.local = "parsed"]
            /\ FReturns(FetchedSnapshot(TRUE,
                   parseLocalApiResponse(data, WARNING_THRESHOLD, CRITICAL_THRESHOLD),
                   "local", ""), Some(data))
    /\ UNCHANGED notFetch

\* The local call rejects or resolves with a body; fetchFromLocalApi catches
\* every error and gives null, and fetchQuotaSnapshot then throws into its
\* own catch block, which returns the disconnected snapshot.
FLocal(rejects, data) ==
    /\ fpc = "local"
    /\ IF rejects
       THEN fseen' = [fseen EXCEPT !.local = "rejected"] /\ FReturns(FetchFailed, None)
       ELSE IF data.kind = "null"
       THEN fseen' = [fseen EXCEPT !.local = "unparsed"] /\ FReturns(FetchFailed, None)
       ELSE /\ fseen' = [fseen EXCEPT !.local = "parsed"]
            /\ FReturns(FetchedSnapshot(TRUE,
                   parseLocalApiResponse(data, WARNING_THRESHOLD, CRITICAL_THRESHOLD),
                   "local", ""), Some(data))
    /\ UNCHANGED notFetch

FetchCalled == \E hasManager \in BOOLEAN : FCall(hasManager)
FetchCreds == \E outcome \in {"token", "notoken", "null", "rejected"} : FCreds(outcome)
FetchProject == \E outcome \in {"id", "null"} : FProject(outcome)
FetchCloud == \E rejects \in BOOLEAN, data \in ResponseBodies : FCloud(rejects, data)
FetchLocal == \E rejects \in BOOLEAN, data \in ResponseBodies : FLocal(rejects, data)

FInit ==
    /\ FIdle
    /\ XIdle
    /\ SIdle
    /\ CIdle
    /\ PIdle
    /\ EIdle
    /\ DIdle

FNext ==
    \/ FetchCalled
    \/ FetchCreds
    \/ FetchProject
    \/ FetchCloud
    \/ FetchLocal

SpecFetch == FInit /\ [][FNext]_vars

\* ---- the defaults of a missing quota record and a missing fraction ----

NoRecord(info) == info.quotaInfo = None
NoFraction(info) == info.quotaInfo # None /\ info.quotaInfo[1].remainingFraction = None

\* The snapshot reports the label with the percentage.
Reports(snapshot, label, remainingPercentage) ==
    \E k \in DOMAIN snapshot.models :
        /\ snapshot.models[k].label = label
        /\ snapshot.models[k].remainingPercentage = remainingPercentage

\* A fetch returned a snapshot parsed from a response body.
ParsedFrom(source) ==
    /\ fpc = "returned"
    /\ fdata # None
    /\ fsnapshot[1].source = source

\* C31 as stated: whichever response a snapshot was parsed from, a model of
\* the response with no quota record is reported at 100% and a model whose
\* record lacks the fraction is reported at 0%.
C31_Original ==
    (fpc = "returned" /\ fdata # None)
    => \A k \in DOMAIN fdata[1].models :
         LET info == fdata[1].models[k]
         IN  /\ NoRecord(info) => Reports(fsnapshot[1], info.label, 100)
             /\ NoFraction(info) => Reports(fsnapshot[1], info.label, 0)

\* C31, amended: the direct parser reports an allow-listed model with no quota
\* record at 100% and one whose record lacks the fraction at 0%, and reports
\* exactly the allow-listed models; the local parser reports a model whose
\* record lacks the fraction at 0% and leaves a model with no quota record
\* out of the snapshot, reporting exactly the models that have a record.
C31_FractionDefaults ==
    /\ ParsedFrom("direct")
       => LET infos == fdata[1].models
          IN  /\ Len(fsnapshot[1].models)
                 = Len(SelectSeq(infos, LAMBDA info : info.label \in allowedModels))
              /\ \A k \in DOMAIN infos :
                   infos[k].label \in allowedModels
                   => /\ NoRecord(infos[k]) => Reports(fsnapshot[1], infos[k].label, 100)
                      /\ NoFraction(infos[k]) => Reports(fsnapshot[1], infos[k].label, 0)
    /\ ParsedFrom("local")
       => LET configs == fdata[1].models
          IN  /\ Len(fsnapshot[1].models)
                 = Len(SelectSeq(configs, LAMBDA config : ~NoRecord(config)))
              /\ \A k \in DOMAIN configs :
                   NoFraction(configs[k]) => Reports(fsnapshot[1], configs[k].label, 0)

\* The local parser met a model with no quota record and one whose record
\* lacks the fraction: the snapshot holds the second alone, at 0%.
C31_Witness ==
    /\ ParsedFrom("local")
    /\ fdata[1].models = <<[label |-> "Gemini 3 Flash", quotaInfo |-> None],
                           [label |-> "Claude Sonnet 4.5",
                            quotaInfo |-> Some([remainingFraction |-> None])]>>
    /\ fsnapshot[1].models = <<ProcessedModelQuota("Claude Sonnet 4.5", 0, "critical")>>

\* ---- what fetchQuotaSnapshot returns ----

\* The direct path gave a snapshot: credentials, project id and a cloud
\* response that parsed.
DirectSucceeded ==
    fseen.creds = "token" /\ fseen.project = "id" /\ fseen.cloud = "parsed"

LocalSucceeded == fseen.local = "parsed"

\* C32: fetchQuotaSnapshot never throws; it returns the direct snapshot when
\* credentials, project id and cloud call all succeeded, and then the local
\* call was not made; otherwise the local snapshot when the local call
\* succeeded; and the snapshot with isConnected = false, no models and an
\* error message exactly when both paths failed.
C32_FetchOutcome ==
    /\ fpc # "threw"
    /\ fpc = "returned"
       => /\ DirectSucceeded
             => /\ fsnapshot[1] = FetchedSnapshot(TRUE,
                       parseDirectApiResponse(fdata[1], WARNING_THRESHOLD,
                                              CRITICAL_THRESHOLD), "direct", "")
                /\ fseen.local = "none"
          /\ (~DirectSucceeded /\ LocalSucceeded)
             => fsnapshot[1] = FetchedSnapshot(TRUE,
                    parseLocalApiResponse(fdata[1], WARNING_THRESHOLD,
                                          CRITICAL_THRESHOLD), "local", "")
          /\ (~DirectSucceeded /\ ~LocalSucceeded)
             <=> /\ ~fsnapshot[1].isConnected
                 /\ fsnapshot[1].models = <<>>
                 /\ fsnapshot[1].errorMessage # ""

\* Both paths failed by rejection, the direct one at the cloud call, and the
\* fetch returned the disconnected snapshot.
C32_Witness ==
    /\ fpc = "returned"
    /\ fseen = [creds |-> "token", project |-> "id", cloud |-> "rejected",
                local |-> "rejected"]
    /\ fsnapshot = Some(FetchFailed)

\* ======================================================================
\* Further properties of the extension (src/src/extension.ts)
\* ======================================================================

\* Any sequence of status-bar updates: updateStatusBar is called with any
\* snapshot and any configuration, again and again.
BarSnapshots ==
    Snapshots \cup { QuotaSnapshot(TRUE, <<ModelQuota("a", 10), ModelQuota("b", 30)>>),
                     QuotaSnapshot(TRUE, <<ModelQuota("a", 31)>>),
                     QuotaSnapshot(TRUE, <<ModelQuota("b", 100)>>) }

BarUpdate ==
    /\ \E snapshot \in BarSnapshots, config \in Configs :
          updateStatusBar(snapshot, config)
    /\ UNCHANGED <<estate, apiClient, refreshTimer, timers, opc, okind, notExt>>

BarNext == BarUpdate

SpecBar == ExtInit /\ [][BarNext]_vars

\* The update saw the model above the notification threshold.
ObservedAbove(snapshot, config, modelId) ==
    \E k \in DOMAIN snapshot.models :
        /\ snapshot.models[k].modelId = modelId
        /\ snapshot.models[k].remainingPercentage > config.notificationThreshold

\* The step is an update of the status bar: updateStatusBar ran on the
\* snapshot and the config the step recorded.
UpdateStep ==
    /\ lastUpdate' # None
    /\ updateStatusBar(lastUpdate'[1].snapshot, lastUpdate'[1].config)

C33_Step ==
    /\ notifiedModels' # notifiedModels => UpdateStep
    /\ UpdateStep
       => /\ \A k \in DOMAIN warnings' :
               /\ warnings'[k] \notin notifiedModels
               /\ warnings'[k] \in notifiedModels'
               /\ \A j \in DOMAIN warnings' : warnings'[j] = warnings'[k] => j = k
          /\ \A modelId \in notifiedModels \ notifiedModels' :
               \/ ~lastUpdate'[1].config.showNotifications
               \/ ObservedAbove(lastUpdate'[1].snapshot, lastUpdate'[1].config, modelId)

\* C33: a status-bar update warns about a model at most once and only when
\* the model is not in the notified set, and the warning puts it there; a
\* model leaves the notified set only in an update that saw it above the
\* threshold or ran with notifications disabled, and in no other step. So a
\* model that stays at or below the threshold is warned about once.
C33_OneWarningWhileLow == [][C33_Step]_vars

\* An update saw model a at the threshold with notifications enabled and did
\* not warn, because an earlier update had.
C33_Witness ==
    /\ lastUpdate # None
    /\ lastUpdate[1].snapshot = QuotaSnapshot(TRUE, <<ModelQuota("a", 30)>>)
    /\ lastUpdate[1].config = ExtensionConfig(TRUE, "right", {})
    /\ "a" \in notifiedModels
    /\ warnings = <<>>

\* C34: at most one interval timer is active at any time, it is the one
\* refreshTimer holds, and after deactivate none is active.
C34_OneTimer ==
    /\ Cardinality(timers) <= 1
    /\ timers = IF refreshTimer = None THEN {} ELSE {refreshTimer[1]}
    /\ estate = "deactivated" => timers = {}

\* The extension was deactivated after startRefreshTimer had run twice, at
\* activation and at a configuration change, each starting a refresh that
\* is still in flight; no timer is left.
C34_Witness ==
    /\ estate = "deactivated"
    /\ timers = {}
    /\ refreshTimer = None
    /\ \A r \in Ops : opc[r] # "idle" /\ okind[r] = "refresh"

\* Operation r is a refreshQuota that ends in this step, after a fetch that
\* was not connected and a second scan that found nothing, or in its catch
\* block.
EndsWithoutClient(r) ==
    /\ okind[r] = "refresh"
    /\ opc'[r] = "idle"
    /\ \/ opc[r] = "connect2"
       \/ /\ opc[r] \in {"fetch", "refetch"}
          /\ EFetchReturns(r, [kind |-> "throw", snapshot |-> Disconnected])

C35_Step == \A r \in Ops : EndsWithoutClient(r) => apiClient' = None

\* C35, as stated: whenever refreshQuota finishes after a fetch that was not
\* connected and a rescan that returned null, or after an exception in its
\* try block, apiClient is null.
C35_ClientDropped == [][C35_Step]_vars

\* ======================================================================
\* The scan result (src/src/processHunter.ts) and the client built from it
\* ======================================================================

\* verifyConnection(ports, csrfToken): the first port of the list whose
\* server answers the probe with JSON; answering is the set of such ports.
RECURSIVE verifyConnection(_, _)
verifyConnection(portList, answering) ==
    IF portList = <<>> THEN None
    ELSE IF Head(portList) \in answering THEN Some(Head(portList))
    ELSE verifyConnection(Tail(portList), answering)

\* verifyAndConnect(info), given the ports identifyPorts(info.pid) yielded.
verifyAndConnect(info, portList, answering) ==
    LET validPort == IF Len(portList) > 0 THEN verifyConnection(portList, answering)
                     ELSE None
    IN  IF validPort # None /\ validPort[1] # 0
        THEN Some([extensionPort |-> info.extensionPort,
                   connectPort |-> validPort[1],
                   csrfToken |-> info.csrfToken])
        ELSE None

\* The candidate whose ports the discovery was asked for.
CandidateOf(pid) == [pid |-> pid, extensionPort |-> 42100, csrfToken |-> P_Hex]

\* The port is the local port of a listening socket of the process.
ListensOn(sockets, pid, port) ==
    \E j \in DOMAIN sockets :
        /\ sockets[j].owner = pid
        /\ sockets[j].state = "LISTEN"
        /\ sockets[j].localPort = port

\* C36, as stated: whichever ports answer the probe, the scan result built
\* for a candidate has the extensionPort and the csrfToken of that candidate
\* and a connectPort that is a listening port of the candidate's process id
\* and answered the probe sent with that token.
C36_ResultOfOneProcess ==
    (dpc = "done" /\ din[1].kind = "sockets")
    => \A answering \in SUBSET {dout[k] : k \in DOMAIN dout} :
         LET info == CandidateOf(din[1].pid)
             found == verifyAndConnect(info, dout, answering)
         IN  found # None
             => /\ found[1].extensionPort = info.extensionPort
                /\ found[1].csrfToken = info.csrfToken
                /\ found[1].connectPort \in answering
                /\ ListensOn(din[1].sockets, info.pid, found[1].connectPort)

\* new AntigravityApiClient(context, port, csrfToken): the port and the
\* token the client sends its local requests to and with.
AntigravityApiClient(port, csrfToken) ==
    [port |-> IF port >= 1024 /\ port <= 65535 THEN port ELSE 5000,
     csrfToken |-> csrfToken]

\* C37: every scan result has its connectPort in [1024, 65535], so the client
\* connectToAntigravity builds from it targets that very port with the
\* scanned token, a pair the scan has verified, and the constructor's
\* fallback to port 5000 is not taken.
C37_ClientTargetsVerifiedPort ==
    (spc = "returned" /\ result # None)
    => LET client == AntigravityApiClient(result[1].connectPort, result[1].csrfToken)
       IN  /\ result[1].connectPort >= PORT_MIN
           /\ result[1].connectPort <= PORT_MAX
           /\ client.port = result[1].connectPort
           /\ client.csrfToken = result[1].csrfToken
           /\ <<client.port, client.csrfToken>> \in verified

\* A scan returned the second port of a list of two.
C37_Witness ==
    /\ spc = "returned"
    /\ result # None
    /\ ports = <<50001, 50002>>
    /\ result[1].connectPort = 50002
    /\ AntigravityApiClient(result[1].connectPort, result[1].csrfToken).port = 50002

\* ======================================================================
\* The temporary copies at the points where the event loop can run
\* (src/src/credentialManager.ts)
\* ======================================================================

\* The temporary copies in os.tmpdir(); every one was made by getCredentials.
TempCopies == files \ {DB_PATH}

C38_Step ==
    running # 0
    => /\ \A d \in Calls \ {running} : InFlight(d) => cpc'[d] = cpc[d]
       /\ running' \in {0, running}
       /\ running' = 0
          => /\ TempCopies' \subseteq TempCopies
             /\ \A name \in TempCopies' :
                  tempDB[running] = Some(name) => settled'[running] = Thrown

====
